---- MODULE Spec2Model ----
(***************************************************************************)
(* State-machine model of the two-tier stale-while-revalidate cache        *)
(* (src/app/lib/cache.ts, class SmartCache) and of the request handlers    *)
(* that use it (src/app/api/sunscore/route.ts, src/app/api/cafes/route.ts).*)
(*                                                                         *)
(* Time is the value of Date.now() in milliseconds.  A cache key is the    *)
(* sequence of its characters (one-character strings), so that getFilePath *)
(* can be modelled by what it does to the characters.                      *)
(***************************************************************************)
EXTENDS Integers, Sequences, FiniteSets, TLC

(***************************************************************************)
(* Bounds of the model.                                                    *)
(***************************************************************************)
\* Last clock value of the cache specification (the clock starts at 0).
MaxTime == 4
\* Number of requests received in one behaviour of the handlers' specification.
MaxRequests == 2

(***************************************************************************)
(* Characters.                                                             *)
(***************************************************************************)
\* The printable ASCII characters, code 32 first (code 96, the grave accent,
\* has no string literal in TLA+ and is held by a placeholder no key contains).
AsciiPrintable ==
  << " ", "!", "\"", "#", "$", "%", "&", "'", "(", ")", "*", "+", ",", "-", ".", "/",
     "0", "1", "2", "3", "4", "5", "6", "7", "8", "9", ":", ";", "<", "=", ">", "?",
     "@", "A", "B", "C", "D", "E", "F", "G", "H", "I", "J", "K", "L", "M", "N", "O",
     "P", "Q", "R", "S", "T", "U", "V", "W", "X", "Y", "Z", "[", "\\", "]", "^", "_",
     "GRAVE", "a", "b", "c", "d", "e", "f", "g", "h", "i", "j", "k", "l", "m", "n", "o",
     "p", "q", "r", "s", "t", "u", "v", "w", "x", "y", "z", "{", "|", "}", "~" >>

\* Buffer.from(key): the byte of an ASCII character is its code.
CharCode(c) == 31 + (CHOOSE i \in 1..Len(AsciiPrintable) : AsciiPrintable[i] = c)

\* The characters the regular expression [^a-zA-Z0-9-_.] does NOT match.
SafeChars ==
  { AsciiPrintable[i] : i \in (66..91) \cup (34..59) \cup (17..26) } \cup {"-", "_", "."}

\* The base64 alphabet of Buffer.toString('base64').
Base64Alphabet ==
  << "A", "B", "C", "D", "E", "F", "G", "H", "I", "J", "K", "L", "M", "N", "O", "P",
     "Q", "R", "S", "T", "U", "V", "W", "X", "Y", "Z", "a", "b", "c", "d", "e", "f",
     "g", "h", "i", "j", "k", "l", "m", "n", "o", "p", "q", "r", "s", "t", "u", "v",
     "w", "x", "y", "z", "0", "1", "2", "3", "4", "5", "6", "7", "8", "9", "+", "/" >>

\* Byte i (from 1) of the key, 0 past its end (base64 pads the last group).
KeyByte(key, i) == IF i <= Len(key) THEN CharCode(key[i]) ELSE 0

\* The j-th (from 0) six-bit group of the base64 encoding of the key.
Base64Sextet(key, j) ==
  LET g  == j \div 4
      b0 == KeyByte(key, 3 * g + 1)
      b1 == KeyByte(key, 3 * g + 2)
      b2 == KeyByte(key, 3 * g + 3)
  IN  CASE j % 4 = 0 -> b0 \div 4
        [] j % 4 = 1 -> (b0 % 4) * 16 + (b1 \div 16)
        [] j % 4 = 2 -> (b1 % 16) * 4 + (b2 \div 64)
        [] OTHER     -> b2 % 64

\* Number of characters of the base64 encoding (with its = padding).
Base64Len(key) == 4 * ((Len(key) + 2) \div 3)

\* Buffer.from(key).toString('base64').slice(0, n).  The slice never reaches
\* the padding when the key is longer than 100 characters and n is 50.
Base64Prefix(key, n) ==
  LET m == IF n < Base64Len(key) THEN n ELSE Base64Len(key)
  IN  [j \in 1..m |-> Base64Alphabet[Base64Sextet(key, j - 1) + 1]]

\* key.replace(/[^a-zA-Z0-9-_.]/g, '_')
ReplaceUnsafe(key) ==
  [i \in 1..Len(key) |-> IF key[i] \in SafeChars THEN key[i] ELSE "_"]

\* SmartCache.getFilePath: the file name inside cacheDir.  path.join(cacheDir,
\* safeKey + ".json") is one-to-one in safeKey, so the path is represented by
\* safeKey itself.
getFilePath(key) ==
  IF Len(key) > 100 THEN Base64Prefix(key, 50) ELSE ReplaceUnsafe(key)

(***************************************************************************)
(* Keys, values and options of the cache specification.                    *)
(***************************************************************************)
\* The keys the cache specification passes to get and set.  A key is named in
\* the state by a short name (and 0); KeyText gives its characters.
TestKeys == {<<"colon", 0>>, <<"under", 0>>, <<"longA", 0>>, <<"longB", 0>>}
\* A key of 101 characters: 100 times "x", then c.
LongKey(c) == [i \in 1..101 |-> IF i <= 100 THEN "x" ELSE c]
\* "a:b" and "a_b" differ only in a character outside [a-zA-Z0-9-_.]; the two
\* long keys differ in their last character.
TestKeyText ==
  [k \in TestKeys |->
     CASE k[1] = "colon" -> <<"a", ":", "b">>
       [] k[1] = "under" -> <<"a", "_", "b">>
       [] k[1] = "longA" -> LongKey("a")
       [] OTHER       -> LongKey("b")]
\* The values it stores: every set call stores a value of its own, the n-th
\* call the n-th of these, so a returned value names the call that stored it.
TestValues == <<[kind |-> "v1"], [kind |-> "v2"]>>
\* The options it passes to set; swr = 0 stands for an absent swr: get tests
\* swr by truthiness and cleanup reads swr || 0, so the two never differ.
TestOptions ==
  { [ttl |-> 2, swr |-> 0], [ttl |-> 2, swr |-> 1], [ttl |-> 1, swr |-> 2] }

(***************************************************************************)
(* Cache times and cache keys of the request handlers.                     *)
(***************************************************************************)
\* CACHE_TIMES, in milliseconds.
CAFES == 14 * 24 * 60 * 60 * 1000
CAFES_SWR == 24 * 60 * 60 * 1000
SUN_GEOMETRY == 24 * 60 * 60 * 1000
WEATHER == 60 * 60 * 1000
WEATHER_SWR == 10 * 60 * 1000
GOLDEN_HOUR == 15 * 60 * 1000
\* The options fetchFreshCafes stores the seed data with.
SEED_TTL == 24 * 60 * 60 * 1000
SEED_SWR == 6 * 60 * 60 * 1000

\* The reference instants of the requests (the now parameter), in
\* milliseconds since 2024-06-15T00:00Z: 12:20 and 15:20.
RequestInstants == { (12 * 60 + 20) * 60 * 1000, (15 * 60 + 20) * 60 * 1000 }

\* SunCalc.getTimes for Paris on that day, in the same unit: sunrise 03:47,
\* solar noon 11:52, sunset 19:56 (UTC).
SunCalcTimes ==
  [sunrise   |-> (3 * 60 + 47) * 60 * 1000,
   solarNoon |-> (11 * 60 + 52) * 60 * 1000,
   sunset    |-> (19 * 60 + 56) * 60 * 1000]

Abs(x) == IF x < 0 THEN -x ELSE x

\* isGoldenHour(time, lat, lon): within 90 minutes of sunrise, sunset or
\* solar noon.
isGoldenHour(time) ==
  LET goldenWindow == 90 * 60 * 1000
  IN  \/ Abs(time - SunCalcTimes.sunrise) < goldenWindow
      \/ Abs(time - SunCalcTimes.sunset) < goldenWindow
      \/ Abs(time - SunCalcTimes.solarNoon) < goldenWindow

\* alignToHour(date): minutes, seconds and milliseconds set to 0.
alignToHour(time) == time - (time % (60 * 60 * 1000))

\* The decimal digits of a number below 100, without and with a leading zero.
Digit(n) == AsciiPrintable[17 + n]
Decimal(n) == IF n < 10 THEN <<Digit(n)>> ELSE <<Digit(n \div 10), Digit(n % 10)>>
TwoDigits(n) == <<Digit(n \div 10), Digit(n % 10)>>

\* hourBucket.toISOString().slice(0, 13), for an instant of 2024-06-15.
HourStr(hourBucket) ==
  <<"2", "0", "2", "4", "-", "0", "6", "-", "1", "5", "T">> \o TwoDigits(hourBucket \div (60 * 60 * 1000))

\* buildCafeKey(): `cafes:` followed by the empty query string.
buildCafeKey == <<"c", "a", "f", "e", "s", ":">>

\* buildWeatherKey(48.8566, 2.3522, hourBucket)
buildWeatherKey(hourBucket) ==
  <<"w", "e", "a", "t", "h", "e", "r", ":", "4", "8", ".", "8", "5", "6", "6", ":", "2", ".", "3", "5", "2", "2", ":">> \o HourStr(hourBucket)

\* buildSunScoreKey(precision, hours, hourBucket)
buildSunScoreKey(precision, hours, hourBucket) ==
  <<"s", "u", "n", "s", "c", "o", "r", "e", ":">> \o precision \o <<":">> \o Decimal(hours) \o <<":">> \o HourStr(hourBucket)

\* The precision parameter of the requests and the hours parameter.
PrecisionParam == <<"v", "o", "x", "c", "i", "t", "y">>
HoursParam == 8
\* const maxHours = Math.min(hours, 12)
maxHours == IF HoursParam < 12 THEN HoursParam ELSE 12

\* The keys of the request handlers, named in the state by what they hold and
\* by the hour bucket of the request.
HourBuckets == { alignToHour(t) : t \in RequestInstants }
ScoreKeys == { <<"sunscore", b>> : b \in HourBuckets }
WeatherKeys == { <<"weather", b>> : b \in HourBuckets }
CafeKey == <<"cafes", 0>>
RouteKeys == ScoreKeys \cup WeatherKeys \cup {CafeKey}
RouteKeyText ==
  [k \in RouteKeys |->
     CASE k[1] = "sunscore" -> buildSunScoreKey(PrecisionParam, maxHours, k[2])
       [] k[1] = "weather"  -> buildWeatherKey(k[2])
       [] OTHER             -> buildCafeKey]

\* A coordinate is held in units of 0.00001 degree; toFixed4 is the number
\* of 0.0001 degrees toFixed(4) prints, ToFixed4Text its characters.
toFixed4(v) == (v + 5) \div 10
FourDigits(n) ==
  <<Digit(n \div 1000), Digit((n \div 100) % 10), Digit((n \div 10) % 10), Digit(n % 10)>>
ToFixed4Text(v) == Decimal(toFixed4(v) \div 10000) \o <<".">> \o FourDigits(toFixed4(v) % 10000)

\* date.toISOString().split('T')[0], for an instant counted in milliseconds
\* from 2024-06-15T00:00:00Z
DayOf(time) == time \div (24 * 60 * 60 * 1000)
DateStr(time) ==
  <<"2", "0", "2", "4", "-", "0", "6", "-">> \o TwoDigits(15 + DayOf(time))

\* buildSunGeometryKey(lat, lon, date)
buildSunGeometryKey(lat, lon, date) ==
  <<"s", "u", "n", "g", "e", "o", "m", ":">> \o ToFixed4Text(lat) \o <<":">>
    \o ToFixed4Text(lon) \o <<":">> \o DateStr(date)

\* The points and the hours geometry is asked for: two points 3 m apart, a
\* third one 1 km away; 12:00 and 13:00 UTC of one day.
GeometryPoints == { <<4885661, 235220>>, <<4885664, 235223>>, <<4886000, 234000>> }
GeometryHours == { 12 * 60 * 60 * 1000, 13 * 60 * 60 * 1000 }
\* The geometry keys, named in the state by the text of the key.
GeometryKeyOf(lat, lon, date) == << "sungeom", buildSunGeometryKey(lat, lon, date) >>
GeometryKeys == { GeometryKeyOf(pt[1], pt[2], h) : pt \in GeometryPoints, h \in GeometryHours }

\* The aggregate keys of requests with precision=heuristic.
HeuristicParam == <<"h", "e", "u", "r", "i", "s", "t", "i", "c">>
HeuristicScoreKeys == { <<"sunscore:heuristic", b>> : b \in HourBuckets }

AllKeys == TestKeys \cup RouteKeys \cup GeometryKeys \cup HeuristicScoreKeys
KeyText ==
  [k \in AllKeys |->
     IF k \in TestKeys THEN TestKeyText[k]
     ELSE IF k \in RouteKeys THEN RouteKeyText[k]
     ELSE IF k \in HeuristicScoreKeys THEN buildSunScoreKey(HeuristicParam, maxHours, k[2])
     ELSE k[2]]
\* getFilePath, tabulated over the keys of the model.
FilePathOf == [k \in AllKeys |-> getFilePath(KeyText[k])]
\* The file of a key, named by one key among those whose path it is: two keys
\* have the same file exactly when getFilePath gives them the same path.
FileOf ==
  [k \in AllKeys |-> CHOOSE r \in AllKeys : FilePathOf[r] = FilePathOf[k]]

(***************************************************************************)
(* Cache entries and the result of get.                                    *)
(***************************************************************************)
NoEntry == [absent |-> TRUE]
NoFile == [absent |-> TRUE]
Null == [kind |-> "null"]

\* The CacheEntry built by set.  The field key is not part of the entry: it
\* records the key the entry was stored under.
CacheEntry(key, data, timestamp, options) ==
  [data |-> data, timestamp |-> timestamp, ttl |-> options.ttl,
   swr |-> options.swr, key |-> key]

\* JSON.stringify(entry), the text of the file, and JSON.parse of it.
JSONstringify(entry) == [text |-> "entry", entry |-> entry]
JSONparse(content) == content.entry

\* Contents of a file that set did not write.  "garbage": not JSON, so
\* JSON.parse throws; "null": the JSON text null, so reading entry.ttl throws;
\* "unreadable": readFile throws.  A text "entry" whose object lacks fields is
\* JSON that does not match CacheEntry.
ReadFileThrows(f) == f.content.text = "unreadable"
JSONparseThrows(content) == content.text = "garbage"
ParsedNull(content) == content.text = "null"
\* The try block of get leaves through its catch.
FileReadFails(f) ==
  ReadFileThrows(f) \/ JSONparseThrows(f.content) \/ ParsedNull(f.content)

\* A field the object lacks reads as undefined.
Has(entry, field) == field \in DOMAIN entry
Undefined == [kind |-> "undefined"]
\* entry.data
DataOf(entry) == IF Has(entry, "data") THEN entry.data ELSE Undefined

\* const isExpired = age > entry.ttl (false when ttl is undefined)
isExpired(entry, age) == Has(entry, "ttl") /\ age > entry.ttl
\* const isStale = entry.swr && age > (entry.ttl - entry.swr)
isStale(entry, age) ==
  /\ Has(entry, "swr") /\ entry.swr # 0
  /\ Has(entry, "ttl") /\ age > entry.ttl - entry.swr
\* entry.swr && age < (entry.ttl + entry.swr)
withinSwr(entry, age) ==
  /\ Has(entry, "swr") /\ entry.swr # 0
  /\ Has(entry, "ttl") /\ age < entry.ttl + entry.swr

\* return { data: null, isStale: false, shouldRefresh: false }
MissResult ==
  [data |-> Null, isStale |-> FALSE, shouldRefresh |-> FALSE,
   tier |-> "none", entry |-> NoEntry]

\* The value get returns for an entry of the given age found in tier; the
\* fields tier and entry are not part of the returned object: they record
\* where the value came from.
HitResult(entry, age, tier) ==
  IF ~isExpired(entry, age)
  THEN [data |-> DataOf(entry), isStale |-> isStale(entry, age),
        shouldRefresh |-> isStale(entry, age), tier |-> tier, entry |-> entry]
  ELSE IF withinSwr(entry, age)
  THEN [data |-> DataOf(entry), isStale |-> TRUE, shouldRefresh |-> TRUE,
        tier |-> tier, entry |-> entry]
  ELSE MissResult

\* The result for a memory entry without a timestamp: age = now - undefined
\* is NaN, every comparison with it is false, so the entry is neither
\* expired nor stale.
NaNAgeResult(entry) ==
  [data |-> DataOf(entry), isStale |-> FALSE, shouldRefresh |-> FALSE,
   tier |-> "memory", entry |-> entry]

\* The memory part of get: the result when the memory tier answers.
MemoryResult(mem, key, t) ==
  IF mem[key] = NoEntry THEN MissResult
  ELSE IF ~Has(mem[key], "timestamp") THEN NaNAgeResult(mem[key])
  ELSE HitResult(mem[key], t - mem[key].timestamp, "memory")

\* The file part of get: stat, readFile, JSON.parse; a missing file, a
\* failing read and a failing parse throw into the empty catch.  The age is
\* taken from the file's mtimeMs.
FileResult(files, key, t) ==
  LET f == files[FileOf[key]]
  IN  IF f = NoFile THEN MissResult
      ELSE IF FileReadFails(f) THEN MissResult
      ELSE HitResult(JSONparse(f.content), t - f.mtimeMs, "file")

\* SmartCache.get: what it returns at time t.
getResult(mem, files, key, t) ==
  IF MemoryResult(mem, key, t).tier = "memory"
  THEN MemoryResult(mem, key, t)
  ELSE FileResult(files, key, t)

\* SmartCache.get: the memory tier it leaves.  An expired memory entry is
\* deleted; an unexpired file entry is restored to memory.
getMemory(mem, files, key, t) ==
  IF MemoryResult(mem, key, t).tier = "memory" THEN mem
  ELSE LET f == files[FileOf[key]]
       IN  IF /\ f # NoFile
              /\ ~FileReadFails(f)
              /\ ~isExpired(JSONparse(f.content), t - f.mtimeMs)
           THEN [mem EXCEPT ![key] = JSONparse(f.content)]
           ELSE [mem EXCEPT ![key] = NoEntry]

\* Mutant of setMemory: the memory store is missing.
setMemoryDropped(mem, key, entry) == mem

\* this.memoryCache.set(key, entry)
setMemory(mem, key, entry) == [mem EXCEPT ![key] = entry]

\* await fsp.writeFile(filePath, JSON.stringify(entry), "utf8") at time t
writeFile(files, key, entry, t) ==
  [files EXCEPT ![FileOf[key]] =
     [content |-> JSONstringify(entry), mtimeMs |-> t]]

\* The catch of set: a failed durable write is logged and set resolves.
setAfterWriteError == "resolved"

(***************************************************************************)
(* State.                                                                  *)
(***************************************************************************)
VARIABLES
  now,          \* Date.now()
  memoryCache,  \* SmartCache.memoryCache: key -> entry
  fileStore,    \* the files of cacheDir: path -> content and mtimeMs
  setCalls,     \* set calls suspended between the memory store and the file write
  setCount,     \* number of set calls made
  latestSet,    \* history: per key, the entry of the latest set call
  returned,     \* the cache call that returned in the step just taken, if any
  tasks,        \* the request handlers and background refreshes in flight
  requestCount, \* number of requests received
  event,        \* what the step just taken did: a response sent, a line logged
  probe         \* a library function under examination: its arguments, its result

cacheVars == << setCalls, setCount, latestSet, returned >>
routeVars == << tasks, requestCount, event >>
vars ==
  << now, memoryCache, fileStore, setCalls, setCount, latestSet, returned,
     tasks, requestCount, event, probe >>

NoCall == [op |-> "none"]
NoEvent == [kind |-> "none"]
NoProbe == [fn |-> "none"]

\* The state after the module is loaded: cache = new SmartCache(), with an
\* empty cache directory.
InitState(keys) ==
  /\ now = 0
  /\ memoryCache = [k \in keys |-> NoEntry]
  /\ fileStore = [p \in { FileOf[k] : k \in keys } |-> NoFile]
  /\ setCalls = {}
  /\ setCount = 0
  /\ latestSet = [k \in keys |-> NoEntry]
  /\ returned = NoCall
  /\ tasks = {}
  /\ requestCount = 0
  /\ event = NoEvent

InitOn(keys) == InitState(keys) /\ probe = NoProbe

InitCache == InitOn(TestKeys)

(***************************************************************************)
(* Actions of the cache.                                                   *)
(***************************************************************************)
\* The clock advances.
Tick ==
  /\ now < MaxTime
  /\ now' = now + 1
  /\ returned' = NoCall
  /\ UNCHANGED << memoryCache, fileStore, setCalls, setCount, latestSet >>
  /\ UNCHANGED routeVars
  /\ UNCHANGED probe

\* set(key, data, options) up to its first await, data being the next value:
\* the entry is built with timestamp Date.now() and stored in memory; the
\* call then suspends in ensureCacheDir / writeFile.
SetCall(key, options) ==
  /\ setCount < Len(TestValues)
  /\ LET entry == CacheEntry(key, TestValues[setCount + 1], now, options)
     IN  /\ memoryCache' = setMemory(memoryCache, key, entry)
         /\ setCalls' = setCalls \cup {entry}
         /\ latestSet' = [latestSet EXCEPT ![key] = entry]
  /\ setCount' = setCount + 1
  /\ returned' = NoCall
  /\ UNCHANGED << now, fileStore >>
  /\ UNCHANGED routeVars
  /\ UNCHANGED probe

\* The rest of set when the durable write succeeds: the file is written at
\* the current time, which becomes its mtimeMs.
SetWriteFile(entry) ==
  /\ entry \in setCalls
  /\ fileStore' = writeFile(fileStore, entry.key, entry, now)
  /\ setCalls' = setCalls \ {entry}
  /\ returned' = [op |-> "set", key |-> entry.key, entry |-> entry,
                  outcome |-> "resolved", written |-> TRUE]
  /\ UNCHANGED << now, memoryCache, setCount, latestSet >>
  /\ UNCHANGED routeVars
  /\ UNCHANGED probe

\* The rest of set when the directory cannot be created or writeFile throws.
SetWriteFails(entry) ==
  /\ entry \in setCalls
  /\ setCalls' = setCalls \ {entry}
  /\ returned' = [op |-> "set", key |-> entry.key, entry |-> entry,
                  outcome |-> setAfterWriteError, written |-> FALSE]
  /\ UNCHANGED << now, memoryCache, fileStore, setCount, latestSet >>
  /\ UNCHANGED routeVars
  /\ UNCHANGED probe

\* get(key).
GetCall(key) ==
  /\ memoryCache' = getMemory(memoryCache, fileStore, key, now)
  /\ returned' = [op |-> "get", key |-> key,
                  result |-> getResult(memoryCache, fileStore, key, now),
                  latest |-> latestSet[key]]
  /\ UNCHANGED << now, fileStore, setCalls, setCount, latestSet >>
  /\ UNCHANGED routeVars
  /\ UNCHANGED probe

CacheNext ==
  \/ Tick
  \/ \E key \in TestKeys, options \in TestOptions : SetCall(key, options)
  \/ \E entry \in setCalls : SetWriteFile(entry)
  \/ \E entry \in setCalls : SetWriteFails(entry)
  \/ \E key \in TestKeys : GetCall(key)

\* The cache on its own: set and get calls on the test keys.
SpecCache == InitCache /\ [][CacheNext]_vars

(***************************************************************************)
(* The cache over a cache directory whose files may be damaged.            *)
(***************************************************************************)
\* The key of this specification.
DurableKeys == {<<"colon", 0>>}

\* The value found in a file that set did not write.
ForeignValue == [kind |-> "foreign"]

\* JSON objects that do not match CacheEntry: ttl, data or timestamp missing.
MalformedEntries ==
  { [data |-> ForeignValue, timestamp |-> 0],
    [timestamp |-> 0, ttl |-> 2],
    [data |-> ForeignValue, ttl |-> 2] }

\* What a damaged file holds.
DamagedContents ==
  { [text |-> "garbage"], [text |-> "null"], [text |-> "unreadable"] }
    \cup { JSONstringify(e) : e \in MalformedEntries }

InitDurable == InitOn(DurableKeys)

\* The file of a key is damaged or replaced from outside the program.
DamageFile(key, content) ==
  /\ fileStore' = [fileStore EXCEPT ![FileOf[key]] =
                     [content |-> content, mtimeMs |-> now]]
  /\ returned' = NoCall
  /\ UNCHANGED << now, memoryCache, setCalls, setCount, latestSet >>
  /\ UNCHANGED routeVars
  /\ UNCHANGED probe

\* The file of a key is removed from outside the program.
RemoveFile(key) ==
  /\ fileStore[FileOf[key]] # NoFile
  /\ fileStore' = [fileStore EXCEPT ![FileOf[key]] = NoFile]
  /\ returned' = NoCall
  /\ UNCHANGED << now, memoryCache, setCalls, setCount, latestSet >>
  /\ UNCHANGED routeVars
  /\ UNCHANGED probe

\* A new server instance: the memory tier is empty, the files remain.
Restart ==
  /\ setCalls = {}
  /\ tasks = {}
  /\ memoryCache # [k \in DOMAIN memoryCache |-> NoEntry]
  /\ memoryCache' = [k \in DOMAIN memoryCache |-> NoEntry]
  /\ returned' = NoCall
  /\ UNCHANGED << now, fileStore, setCalls, setCount, latestSet >>
  /\ UNCHANGED routeVars
  /\ UNCHANGED probe

\* Mutant of CleanupRemoves: the swr of the entry is left out of maxAge.
CleanupRemovesIgnoringSwr(entry, t) ==
  /\ Has(entry, "ttl") /\ Has(entry, "timestamp")
  /\ t - entry.timestamp > entry.ttl

\* const maxAge = entry.ttl + (entry.swr || 0); now - entry.timestamp > maxAge
\* (false when ttl or timestamp is undefined).
CleanupRemoves(entry, t) ==
  /\ Has(entry, "ttl") /\ Has(entry, "timestamp")
  /\ t - entry.timestamp > entry.ttl + (IF Has(entry, "swr") THEN entry.swr ELSE 0)

\* The clock of this specification counts seconds, not milliseconds: 30 days
\* in milliseconds are more than the integers of the model checker hold.
MsPerTick == 1000
\* Remove files older than 30 days: 30 * 24 * 60 * 60 * 1000 ms.
RETENTION == 30 * 24 * 60 * 60 * (1000 \div MsPerTick)
\* now - stat.mtimeMs > 30 * 24 * 60 * 60 * 1000
CleanupUnlinks(f, t) == f # NoFile /\ t - f.mtimeMs > RETENTION

\* More than the retention time passes; the clock then stays.
LongWait ==
  /\ now <= MaxTime
  /\ now' = now + RETENTION
  /\ returned' = NoCall
  /\ UNCHANGED << memoryCache, fileStore, setCalls, setCount, latestSet >>
  /\ UNCHANGED routeVars
  /\ UNCHANGED probe

\* cleanup() up to its first await: now is read and the memory pass deletes
\* the entries older than ttl + swr; the call suspends in readdir.
CleanupCall ==
  /\ \A task \in tasks : task.kind # "cleanup"
  /\ LET deleted == { k \in DOMAIN memoryCache :
                        memoryCache[k] # NoEntry /\ CleanupRemoves(memoryCache[k], now) }
     IN  /\ memoryCache' = [k \in DOMAIN memoryCache |->
                              IF k \in deleted THEN NoEntry ELSE memoryCache[k]]
         /\ tasks' = tasks \cup {[kind |-> "cleanup", now |-> now, deleted |-> deleted]}
  /\ returned' = NoCall
  /\ UNCHANGED << now, fileStore, setCalls, setCount, latestSet >>
  /\ UNCHANGED << requestCount, event >>
  /\ UNCHANGED probe

\* The file pass of cleanup, with the now read when the call began: every
\* file older than 30 days is unlinked; or readdir, stat or unlink throws
\* (here before any file was unlinked) and the catch drops the error.
CleanupFiles(task, throws) ==
  /\ task \in tasks
  /\ task.kind = "cleanup"
  /\ LET unlinked == IF throws THEN {}
                     ELSE { p \in DOMAIN fileStore : CleanupUnlinks(fileStore[p], task.now) }
     IN  /\ fileStore' = [p \in DOMAIN fileStore |->
                            IF p \in unlinked THEN NoFile ELSE fileStore[p]]
         /\ returned' = [op |-> "cleanup", outcome |-> "resolved", threw |-> throws,
                         now |-> task.now, deleted |-> task.deleted,
                         unlinked |-> unlinked]
  /\ tasks' = tasks \ {task}
  /\ UNCHANGED << now, memoryCache, setCalls, setCount, latestSet >>
  /\ UNCHANGED << requestCount, event >>
  /\ UNCHANGED probe

DurableNext ==
  \/ Tick
  \/ \E key \in DurableKeys, options \in TestOptions : SetCall(key, options)
  \/ \E entry \in setCalls : SetWriteFile(entry)
  \/ \E entry \in setCalls : SetWriteFails(entry)
  \/ \E key \in DurableKeys : GetCall(key)
  \/ \E key \in DurableKeys, content \in DamagedContents : DamageFile(key, content)
  \/ \E key \in DurableKeys : RemoveFile(key)
  \/ Restart

CleanupNext ==
  \/ Tick
  \/ LongWait
  \/ \E key \in DurableKeys, options \in TestOptions : SetCall(key, options)
  \/ \E entry \in setCalls : SetWriteFile(entry)
  \/ \E entry \in setCalls : SetWriteFails(entry)
  \/ \E key \in DurableKeys : GetCall(key)
  \/ CleanupCall
  \/ \E task \in tasks, throws \in BOOLEAN : CleanupFiles(task, throws)

\* The cache with set, get and cleanup over a long time.
SpecCleanup == InitDurable /\ [][CleanupNext]_vars

\* The cache with set, get, restarts and a damageable cache directory.
SpecDurable == InitDurable /\ [][DurableNext]_vars

(***************************************************************************)
(* The request handlers: GET /api/sunscore and GET /api/cafes.             *)
(***************************************************************************)
\* The clock values of the handlers' specification.  For an entry stored at 0
\* with the golden-hour ttl: past ttl - swr, past ttl, at ttl + swr; for the
\* cafe list stored at 0: past its ttl (every weather and score entry has
\* expired by then).
RouteTimes ==
  { 0, GOLDEN_HOUR - WEATHER_SWR + 1, GOLDEN_HOUR + 1, GOLDEN_HOUR + WEATHER_SWR,
    CAFES + 1 }

\* What the weather provider and the place directory can answer.
WeatherOutcomes == {"throws", "empty", "data"}
OverpassOutcomes == {"throws", "empty", "cafes"}
SeedOutcomes == {"ok", "fails"}

\* const scoreKey = buildSunScoreKey(precisionParam, maxHours, hourBucket)
ScoreKeyOf(instant) == <<"sunscore", alignToHour(instant)>>
\* const cacheKey = buildWeatherKey(lat, lon, hourBucket)
WeatherKeyOf(instant) == <<"weather", alignToHour(instant)>>

\* Mutant of AdaptiveTtl: the golden-hour test is missing.
AdaptiveTtlStandard(instant) == WEATHER

\* const ttl = isGolden ? CACHE_TIMES.GOLDEN_HOUR : CACHE_TIMES.WEATHER
AdaptiveTtl(instant) == IF isGoldenHour(instant) THEN GOLDEN_HOUR ELSE WEATHER

\* The values the handlers cache: the weather sequence (its length), the cafe
\* payload and the aggregate response.
WeatherData(n) == [kind |-> "weather", hours |-> n]
CafesPayload(source, t) == [kind |-> "cafes", source |-> source, updatedAt |-> t]
ScoresResponse(t) == [kind |-> "scores", updatedAt |-> t]

\* The length of the sequence fetchFreshWeatherData builds when the provider
\* has data from the starting hour on: i < Math.max(hours, 12).
FetchedHours(hours) == IF hours > 12 THEN hours ELSE 12
\* cached.slice(0, hours)
SlicedHours(n, hours) == IF n < hours THEN n ELSE hours

\* await cache.set(key, data, options) as one step of a handler: the memory
\* tier it leaves, and the files it leaves when the durable write succeeds
\* (written) or fails.
cacheSetMemory(mem, key, data, options, t) ==
  setMemory(mem, key, CacheEntry(key, data, t, options))
cacheSetFiles(files, key, data, options, t, written) ==
  IF written THEN writeFile(files, key, CacheEntry(key, data, t, options), t)
  ELSE files

\* if (cached && !isStale)
FreshHit(r) == r.data # Null /\ ~r.isStale
\* if (cached && isStale && shouldRefresh)
StaleHit(r) == r.data # Null /\ r.isStale /\ r.shouldRefresh

\* A handler or background refresh in flight.  kind: "sunscore" (GET computing
\* in the foreground), "scoreRefresh" (refreshSunScoresInBackground),
\* "weatherRefresh", "cafes" (GET /api/cafes fetching in the foreground),
\* "cafesRefresh", "cafesDetached" (the cafe fetch of a computation that has
\* already failed).  id: the request that started it.
Task(kind, id, pc, instant, ttl) ==
  [kind |-> kind, id |-> id, pc |-> pc, instant |-> instant, ttl |-> ttl,
   weather |-> [state |-> "none", hours |-> 0],
   cafes |-> [state |-> "none"]]

ComputeKinds == {"sunscore", "scoreRefresh"}

InitRoutes == InitOn(RouteKeys)

\* The clock advances to a later value.
RouteTick ==
  /\ \E t \in RouteTimes : t > now /\ now' = t
  /\ event' = NoEvent
  /\ UNCHANGED << memoryCache, fileStore, tasks, requestCount >>
  /\ UNCHANGED cacheVars
  /\ UNCHANGED probe

\* GET /api/sunscore?now=instant up to the cache lookup and what follows it
\* without a provider call: a fresh hit is returned, a stale hit is returned
\* after refreshSunScoresInBackground was started, a miss starts
\* computeFreshSunScores in the foreground.
SunscoreGET(instant) ==
  /\ requestCount < MaxRequests
  /\ requestCount' = requestCount + 1
  /\ LET scoreKey == ScoreKeyOf(instant)
         r == getResult(memoryCache, fileStore, scoreKey, now)
         ttl == AdaptiveTtl(instant)
         id == requestCount + 1
     IN  /\ memoryCache' = getMemory(memoryCache, fileStore, scoreKey, now)
         /\ IF FreshHit(r)
            THEN /\ tasks' = tasks
                 /\ event' = [kind |-> "response", route |-> "sunscore", id |-> id,
                              status |-> 200, cacheStatus |-> "fresh",
                              key |-> scoreKey, body |-> r.data]
            ELSE IF StaleHit(r)
            THEN /\ tasks' = tasks \cup {Task("scoreRefresh", id, "begin", instant, ttl)}
                 /\ event' = [kind |-> "response", route |-> "sunscore", id |-> id,
                              status |-> 200, cacheStatus |-> "stale-while-revalidate",
                              key |-> scoreKey, body |-> r.data]
            ELSE /\ tasks' = tasks \cup {Task("sunscore", id, "begin", instant, ttl)}
                 /\ event' = NoEvent
  /\ UNCHANGED << now, fileStore >>
  /\ UNCHANGED cacheVars
  /\ UNCHANGED probe

\* The weather part of Promise.all at the start of computeFreshSunScores:
\* fetchParisWeatherHourly up to its provider call.
WeatherLookup(mem, instant) == getResult(mem, fileStore, WeatherKeyOf(instant), now)
\* The cafe part: fetchCafes calls GET of /api/cafes, up to its provider call.
CafesLookup(mem) == getResult(mem, fileStore, CafeKey, now)

\* computeFreshSunScores starts: both lookups are made; a fresh or stale hit
\* settles its part, a stale hit also starts a background refresh, a miss
\* leaves the part waiting for the provider.
ComputeBegin(task) ==
  /\ task \in tasks
  /\ task.kind \in ComputeKinds
  /\ task.pc = "begin"
  /\ LET wr == WeatherLookup(memoryCache, task.instant)
         mem1 == getMemory(memoryCache, fileStore, WeatherKeyOf(task.instant), now)
         cr == CafesLookup(mem1)
         mem2 == getMemory(mem1, fileStore, CafeKey, now)
         weather == IF wr.data # Null
                    THEN [state |-> "have", hours |-> SlicedHours(wr.data.hours, maxHours)]
                    ELSE [state |-> "fetching", hours |-> 0]
         cafes == IF cr.data # Null THEN [state |-> "have"] ELSE [state |-> "fetching"]
         spawned ==
           (IF StaleHit(wr)
            THEN {Task("weatherRefresh", task.id, "fetching", task.instant, task.ttl)}
            ELSE {})
           \cup
           (IF StaleHit(cr)
            THEN {Task("cafesRefresh", task.id, "fetching", 0, 0)}
            ELSE {})
     IN  /\ memoryCache' = mem2
         /\ tasks' = (tasks \ {task})
                       \cup {[task EXCEPT !.pc = "wait", !.weather = weather, !.cafes = cafes]}
                       \cup spawned
  /\ event' = NoEvent
  /\ UNCHANGED << now, fileStore, requestCount >>
  /\ UNCHANGED cacheVars
  /\ UNCHANGED probe

\* fetchFreshWeatherData after its provider call.  The provider call throws,
\* or it has no hour from the starting hour on (an empty sequence is returned
\* and nothing is cached), or it has data (the sequence is cached).
WeatherFetched(task, outcome, written) ==
  /\ task \in tasks
  /\ \/ task.kind \in ComputeKinds /\ task.pc = "wait" /\ task.weather.state = "fetching"
     \/ task.kind = "weatherRefresh"
  /\ LET key == WeatherKeyOf(task.instant)
         data == WeatherData(FetchedHours(maxHours))
         options == [ttl |-> task.ttl, swr |-> WEATHER_SWR]
         weather == CASE outcome = "throws" -> [state |-> "threw", hours |-> 0]
                      [] outcome = "empty"  -> [state |-> "have", hours |-> 0]
                      [] OTHER              -> [state |-> "have", hours |-> data.hours]
     IN  /\ IF outcome = "data"
            THEN /\ memoryCache' = cacheSetMemory(memoryCache, key, data, options, now)
                 /\ fileStore' = cacheSetFiles(fileStore, key, data, options, now, written)
            ELSE /\ written
                 /\ UNCHANGED << memoryCache, fileStore >>
         /\ IF task.kind = "weatherRefresh"
            THEN /\ tasks' = tasks \ {task}
                 /\ event' = [kind |-> "log", task |-> task.kind, id |-> task.id,
                              line |-> IF outcome = "throws"
                                       THEN "Background weather refresh failed"
                                       ELSE "Background weather refresh completed"]
            ELSE /\ tasks' = (tasks \ {task}) \cup {[task EXCEPT !.weather = weather]}
                 /\ event' = NoEvent
  /\ UNCHANGED << now, requestCount >>
  /\ UNCHANGED cacheVars
  /\ UNCHANGED probe

CafeFetchKinds == {"cafes", "cafesRefresh", "cafesDetached"}

\* fetchFreshCafes after its provider call.  Overpass returns cafes (cached
\* for 14 days), or it throws or returns none and the seed file is loaded
\* (cached for 1 day) or cannot be loaded (nothing is cached, status 503).
CafesFetched(task, overpass, seed, written) ==
  /\ task \in tasks
  /\ \/ task.kind \in ComputeKinds /\ task.pc = "wait" /\ task.cafes.state = "fetching"
     \/ task.kind \in CafeFetchKinds
  /\ overpass = "cafes" => seed = "ok"
  /\ LET stored == overpass = "cafes" \/ seed = "ok"
         payload == IF overpass = "cafes" THEN CafesPayload("overpass", now)
                    ELSE CafesPayload("seed", 0)
         options == IF overpass = "cafes" THEN [ttl |-> CAFES, swr |-> CAFES_SWR]
                    ELSE [ttl |-> SEED_TTL, swr |-> SEED_SWR]
     IN  /\ IF stored
            THEN /\ memoryCache' = cacheSetMemory(memoryCache, CafeKey, payload, options, now)
                 /\ fileStore' = cacheSetFiles(fileStore, CafeKey, payload, options, now, written)
            ELSE /\ written
                 /\ UNCHANGED << memoryCache, fileStore >>
         /\ IF task.kind \in ComputeKinds
            THEN /\ tasks' = (tasks \ {task}) \cup {[task EXCEPT !.cafes = [state |-> "have"]]}
                 /\ event' = NoEvent
            ELSE /\ tasks' = tasks \ {task}
                 /\ event' =
                      IF task.kind = "cafes"
                      THEN [kind |-> "response", route |-> "cafes", id |-> task.id,
                            status |-> IF stored THEN 200 ELSE 503,
                            cacheStatus |-> CASE overpass = "cafes" -> "fresh-fetch"
                                              [] stored -> "fallback"
                                              [] OTHER -> "none",
                            key |-> CafeKey,
                            body |-> IF stored THEN payload
                                     ELSE [kind |-> "error", error |-> "no_data_available"]]
                      ELSE [kind |-> "log", task |-> task.kind, id |-> task.id,
                            line |-> "Background refresh completed"]
  /\ UNCHANGED << now, requestCount >>
  /\ UNCHANGED cacheVars
  /\ UNCHANGED probe

\* Mutant of ComputeFails: the test of weatherData.length is missing.
ComputeFailsUnlessThrown(task) == task.weather.state = "threw"

\* The computation ends in the catch: the weather fetch threw, or
\* weatherData.length === 0 throws 'No weather data available'.
ComputeFails(task) == task.weather.state = "threw" \/ task.weather.hours = 0

\* err.message of the error caught.
ErrorMessage(task) ==
  IF task.weather.state = "threw" THEN "fetch failed"
  ELSE "No weather data available"

\* computeFreshSunScores after Promise.all.  Promise.all rejects as soon as
\* the weather fetch throws, whatever the cafe fetch is doing (which then goes
\* on alone); otherwise both parts are awaited.  An empty weather sequence
\* throws 'No weather data available'.  The catch returns the 500 response in
\* the foreground and nothing in a background refresh.  Otherwise the scores
\* are computed, cached under scoreKey and returned.
ComputeFinish(task, written) ==
  /\ task \in tasks
  /\ task.kind \in ComputeKinds
  /\ task.pc = "wait"
  /\ \/ task.weather.state = "threw"
     \/ task.weather.state = "have" /\ task.cafes.state = "have"
  /\ LET scoreKey == ScoreKeyOf(task.instant)
         failed == ComputeFails(task)
         response == ScoresResponse(now)
         options == [ttl |-> task.ttl, swr |-> WEATHER_SWR]
         detached == IF task.cafes.state = "fetching"
                     THEN {Task("cafesDetached", task.id, "fetching", 0, 0)}
                     ELSE {}
     IN  IF failed
         THEN /\ written
              /\ tasks' = (tasks \ {task}) \cup detached
              /\ event' =
                   IF task.kind = "sunscore"
                   THEN [kind |-> "response", route |-> "sunscore", id |-> task.id,
                         status |-> 500, cacheStatus |-> "none",
                         key |-> scoreKey,
                         body |-> [kind |-> "error", error |-> "sunscore_failed",
                                   message |-> ErrorMessage(task)]]
                   ELSE [kind |-> "log", task |-> task.kind, id |-> task.id,
                         key |-> scoreKey, line |-> "Sunscore API error"]
              /\ UNCHANGED << memoryCache, fileStore >>
         ELSE /\ tasks' = tasks \ {task}
              /\ memoryCache' = cacheSetMemory(memoryCache, scoreKey, response, options, now)
              /\ fileStore' = cacheSetFiles(fileStore, scoreKey, response, options, now, written)
              /\ event' =
                   IF task.kind = "sunscore"
                   THEN [kind |-> "response", route |-> "sunscore", id |-> task.id,
                         status |-> 200, cacheStatus |-> "fresh-computation",
                         key |-> scoreKey, body |-> response]
                   ELSE [kind |-> "log", task |-> task.kind, id |-> task.id,
                         key |-> scoreKey,
                         line |-> "Background sun score refresh completed"]
  /\ UNCHANGED << now, requestCount >>
  /\ UNCHANGED cacheVars
  /\ UNCHANGED probe

\* GET /api/cafes from a client, up to its provider call.
CafesGET ==
  /\ requestCount < MaxRequests
  /\ requestCount' = requestCount + 1
  /\ LET r == CafesLookup(memoryCache)
         id == requestCount + 1
     IN  /\ memoryCache' = getMemory(memoryCache, fileStore, CafeKey, now)
         /\ IF FreshHit(r)
            THEN /\ tasks' = tasks
                 /\ event' = [kind |-> "response", route |-> "cafes", id |-> id,
                              status |-> 200, cacheStatus |-> "fresh",
                              key |-> CafeKey, body |-> r.data]
            ELSE IF StaleHit(r)
            THEN /\ tasks' = tasks \cup {Task("cafesRefresh", id, "fetching", 0, 0)}
                 /\ event' = [kind |-> "response", route |-> "cafes", id |-> id,
                              status |-> 200, cacheStatus |-> "stale-while-revalidate",
                              key |-> CafeKey, body |-> r.data]
            ELSE /\ tasks' = tasks \cup {Task("cafes", id, "fetching", 0, 0)}
                 /\ event' = NoEvent
  /\ UNCHANGED << now, fileStore >>
  /\ UNCHANGED cacheVars
  /\ UNCHANGED probe

\* A new server instance loads the module: the memory tier is empty, the
\* files of the cache directory remain.
ColdStart ==
  /\ tasks = {}
  /\ memoryCache # [k \in DOMAIN memoryCache |-> NoEntry]
  /\ memoryCache' = [k \in DOMAIN memoryCache |-> NoEntry]
  /\ event' = NoEvent
  /\ UNCHANGED << now, fileStore, tasks, requestCount >>
  /\ UNCHANGED cacheVars
  /\ UNCHANGED probe

RoutesNext ==
  \/ RouteTick
  \/ \E instant \in RequestInstants : SunscoreGET(instant)
  \/ \E task \in tasks : ComputeBegin(task)
  \/ \E task \in tasks, outcome \in WeatherOutcomes, written \in BOOLEAN :
       WeatherFetched(task, outcome, written)
  \/ \E task \in tasks, overpass \in OverpassOutcomes, seed \in SeedOutcomes,
        written \in BOOLEAN : CafesFetched(task, overpass, seed, written)
  \/ \E task \in tasks, written \in BOOLEAN : ComputeFinish(task, written)
  \/ CafesGET
  \/ ColdStart

\* The request handlers with the cache behind them.
SpecRoutes == InitRoutes /\ [][RoutesNext]_vars

(***************************************************************************)
(* Claims about the cache (checked under SpecCache).                       *)
(***************************************************************************)
\* A get call has just returned, for a key some set call has stored; latest
\* is the entry of the last such call (no set of that key came after it).
GetReturnedAfterSet ==
  /\ returned.op = "get"
  /\ returned.latest # NoEntry

\* The age, at the return of that get, of the entry stored by the latest set.
AgeOfLatest == now - returned.latest.timestamp

\* C1: for every ttl and every swr, a get issued at an age of at most ttl
\* after set(key, v, {ttl, swr}), with no set in between, returns v with
\* isStale = false and shouldRefresh = false.
C1_FreshForWholeTtl ==
  (GetReturnedAfterSet /\ AgeOfLatest <= returned.latest.ttl)
    => /\ returned.result.data = returned.latest.data
       /\ returned.result.isStale = FALSE
       /\ returned.result.shouldRefresh = FALSE

\* C2: for an entry stored with an swr, a get at any age with
\* ttl < age <= ttl + swr returns the stored value with isStale = true and
\* shouldRefresh = true.
C2_StaleThroughSwrInclusive ==
  ( /\ GetReturnedAfterSet
    /\ returned.latest.swr # 0
    /\ AgeOfLatest > returned.latest.ttl
    /\ AgeOfLatest <= returned.latest.ttl + returned.latest.swr )
    => /\ returned.result.data = returned.latest.data
       /\ returned.result.isStale = TRUE
       /\ returned.result.shouldRefresh = TRUE

\* C3: get never returns a value whose age, measured from the timestamp of
\* the set call that stored it, exceeds ttl + swr (ttl alone without swr).
C3_NeverOlderThanTtlPlusSwr ==
  (returned.op = "get" /\ returned.result.data # Null)
    => now - returned.result.entry.timestamp
         <= returned.result.entry.ttl + returned.result.entry.swr

\* C4: get(k2) never returns a value that was stored by set(k1) with k1 # k2.
C4_NoValueOfAnotherKey ==
  (returned.op = "get" /\ returned.result.data # Null)
    => returned.result.entry.key = returned.key

\* C10, in a state: a set whose durable write failed resolves, and a get
\* within the ttl of the latest set of its key returns that set's value from
\* the memory tier.
C10_State ==
  /\ (returned.op = "set" /\ ~returned.written) => returned.outcome = "resolved"
  /\ (GetReturnedAfterSet /\ AgeOfLatest <= returned.latest.ttl)
       => /\ returned.result.data = returned.latest.data
          /\ returned.result.tier = "memory"

\* C10, in a step: when a set call suspends, its entry is already in memory.
C10_Step ==
  \A entry \in setCalls' \ setCalls : memoryCache'[entry.key] = entry

\* C10: set stores the entry in the memory tier before its first suspension
\* point; when the durable write fails set still completes without throwing
\* and a following get within ttl returns the value from the memory tier.
C10_MemoryFirstAndWriteFailureHarmless == [](C10_State) /\ [][C10_Step]_vars

\* C10 witness: a get within ttl returned the value from memory although no
\* file holds it and no write is pending: the durable write of its set failed.
C10_Witness ==
  /\ GetReturnedAfterSet
  /\ AgeOfLatest <= returned.latest.ttl
  /\ fileStore[FileOf[returned.key]] = NoFile
  /\ \A entry \in setCalls : entry.key # returned.key
  /\ returned.result.data = returned.latest.data
  /\ returned.result.tier = "memory"


(***************************************************************************)
(* Claims about the request handlers.                                      *)
(***************************************************************************)
\* The entry the two tiers hold for a key: the memory tier's, else the file's.
HeldEntry(mem, files, key) ==
  IF mem[key] # NoEntry THEN mem[key]
  ELSE IF files[FileOf[key]] # NoFile THEN JSONparse(files[FileOf[key]].content)
  ELSE NoEntry

\* The standing of an entry at time t as the specification defines it:
\* fresh iff t - storedAt <= ttl, stale-but-usable iff
\* ttl < t - storedAt <= ttl + swr.
SpecFresh(entry, t) ==
  entry # NoEntry /\ t - entry.timestamp <= entry.ttl
SpecStaleButUsable(entry, t) ==
  /\ entry # NoEntry
  /\ entry.swr # 0
  /\ entry.ttl < t - entry.timestamp
  /\ t - entry.timestamp <= entry.ttl + entry.swr

\* The step is the successful end of a background recompute of the scores,
\* which has stored an entry timestamped now under the key of its request.
RefreshWroteNewEntry(task) ==
  /\ memoryCache'[ScoreKeyOf(task.instant)] # NoEntry
  /\ memoryCache'[ScoreKeyOf(task.instant)].timestamp = now
  /\ memoryCache'[ScoreKeyOf(task.instant)].data = ScoresResponse(now)
  /\ memoryCache'[ScoreKeyOf(task.instant)].key = ScoreKeyOf(task.instant)

\* What GET /api/sunscore does on a stale hit: the held value is the response
\* of the very step that starts the background recompute for the same instant.
StaleServedAndRefreshStarted(instant) ==
  /\ event'.kind = "response"
  /\ event'.status = 200
  /\ event'.body = HeldEntry(memoryCache, fileStore, ScoreKeyOf(instant)).data
  /\ \E task \in tasks' \ tasks :
       task.kind = "scoreRefresh" /\ task.instant = instant /\ task.pc = "begin"

\* The background recompute, when it succeeds, writes a new entry.
C5_RefreshStep ==
  \A task \in tasks :
    (task.kind = "scoreRefresh" /\ ~ComputeFails(task)
       /\ \E written \in BOOLEAN : ComputeFinish(task, written))
    => RefreshWroteNewEntry(task)

C5_Step ==
  /\ \A instant \in RequestInstants :
       (SunscoreGET(instant)
          /\ SpecStaleButUsable(
               HeldEntry(memoryCache, fileStore, ScoreKeyOf(instant)), now))
       => StaleServedAndRefreshStarted(instant)
  /\ C5_RefreshStep

\* C5: when the aggregate key holds a stale-but-usable entry
\* (ttl < age <= ttl + swr), GET /api/sunscore answers with the stale value
\* in the step that starts a background recompute, and the recompute, when it
\* succeeds, stores a new entry (timestamp now) under the same key.
C5_StaleServedWhileRefreshing == [][C5_Step]_vars

\* The same with the stale hit as cache.get reports it: ages strictly inside
\* the window.
C5_InsideStep ==
  /\ \A instant \in RequestInstants :
       (SunscoreGET(instant)
          /\ StaleHit(getResult(memoryCache, fileStore, ScoreKeyOf(instant), now)))
       => StaleServedAndRefreshStarted(instant)
  /\ C5_RefreshStep
C5_StaleHitServedWhileRefreshing == [][C5_InsideStep]_vars

\* GET /api/sunscore on a fresh entry: the entry is the response, nothing is
\* started, the files are untouched and the memory tier holds what it held or
\* the file's entry restored by get.
FreshServedAndNothingStarted(instant) ==
  LET key == ScoreKeyOf(instant)
      held == HeldEntry(memoryCache, fileStore, key)
  IN  /\ event'.kind = "response"
      /\ event'.status = 200
      /\ event'.body = held.data
      /\ tasks' = tasks
      /\ fileStore' = fileStore
      /\ memoryCache'[key] = held
      /\ \A k \in DOMAIN memoryCache : k # key => memoryCache'[k] = memoryCache[k]

C6_Step ==
  \A instant \in RequestInstants :
    (SunscoreGET(instant)
       /\ SpecFresh(HeldEntry(memoryCache, fileStore, ScoreKeyOf(instant)), now))
    => FreshServedAndNothingStarted(instant)

\* C6: when the aggregate key holds a fresh entry (age <= ttl),
\* GET /api/sunscore returns that entry in one step, starts no computation or
\* background refresh (so no provider is called) and leaves the entry of both
\* tiers as it was.
C6_FreshServedWithoutRefresh == [][C6_Step]_vars

\* The same with the fresh hit as cache.get reports it (age <= ttl - swr).
C6_FreshHitStep ==
  \A instant \in RequestInstants :
    (SunscoreGET(instant)
       /\ FreshHit(getResult(memoryCache, fileStore, ScoreKeyOf(instant), now)))
    => FreshServedAndNothingStarted(instant)
C6_FreshHitServedWithoutRefresh == [][C6_FreshHitStep]_vars

\* The end of a failed background recompute: a line is logged, no response
\* is sent, the cache is as it was.
FailureOnlyLogged ==
  /\ event'.kind = "log"
  /\ memoryCache' = memoryCache
  /\ fileStore' = fileStore

\* A read of the key at the time of the primed state gets the held value as
\* a stale hit, so GET starts another refresh.
NextReadStale(key) ==
  LET r == getResult(memoryCache', fileStore', key, now')
  IN  /\ StaleHit(r)
      /\ r.data = HeldEntry(memoryCache', fileStore', key).data

C7_Step ==
  \A task \in tasks :
    (task.kind = "scoreRefresh" /\ ComputeFails(task)
       /\ \E written \in BOOLEAN : ComputeFinish(task, written))
    => /\ FailureOnlyLogged
       /\ SpecStaleButUsable(
            HeldEntry(memoryCache', fileStore', ScoreKeyOf(task.instant)), now')
          => NextReadStale(ScoreKeyOf(task.instant))

\* C7: a background recompute of the scores that fails only logs: no
\* response is sent and the cache entry is as it was, so a read made while
\* the entry is inside the SWR window (ttl < age <= ttl + swr) gets the stale
\* value and starts another refresh.
C7_FailedRefreshLeavesStaleEntry == [][C7_Step]_vars

\* The same for reads strictly inside the window (ttl < age < ttl + swr).
C7_InsideStep ==
  \A task \in tasks :
    (task.kind = "scoreRefresh" /\ ComputeFails(task)
       /\ \E written \in BOOLEAN : ComputeFinish(task, written))
    => /\ FailureOnlyLogged
       /\ LET held == HeldEntry(memoryCache', fileStore', ScoreKeyOf(task.instant))
          IN  (SpecStaleButUsable(held, now')
                 /\ now' - held.timestamp < held.ttl + held.swr)
              => NextReadStale(ScoreKeyOf(task.instant))
C7_FailedRefreshInsideWindow == [][C7_InsideStep]_vars

C8_Step ==
  \A task \in tasks :
    (task.kind = "cafesRefresh"
       /\ \E overpass \in {"throws", "empty"}, seed \in SeedOutcomes,
             written \in BOOLEAN : CafesFetched(task, overpass, seed, written))
    => /\ memoryCache'[CafeKey] = memoryCache[CafeKey]
       /\ fileStore'[FileOf[CafeKey]] = fileStore[FileOf[CafeKey]]

\* C8: a background refresh of the cafe list whose Overpass call throws or
\* returns no cafes leaves the cached cafe entry of both tiers as it was.
C8_FailedCafeRefreshKeepsEntry == [][C8_Step]_vars

\* A foreground computation whose weather sequence is empty.
EmptyWeather(task) ==
  task.kind = "sunscore" /\ task.weather.state = "have" /\ task.weather.hours = 0

\* The entries of both tiers under the aggregate key of the task's request
\* are not written by the step.
ScoreEntryUntouched(task) ==
  /\ memoryCache'[ScoreKeyOf(task.instant)] = memoryCache[ScoreKeyOf(task.instant)]
  /\ fileStore'[FileOf[ScoreKeyOf(task.instant)]]
       = fileStore[FileOf[ScoreKeyOf(task.instant)]]

\* The step is one of the task: the task is replaced or removed.
StepOf(task) == task \notin tasks'

C9_Step ==
  \A task \in tasks :
    /\ (EmptyWeather(task) /\ StepOf(task)) => ScoreEntryUntouched(task)
    /\ (EmptyWeather(task) /\ \E written \in BOOLEAN : ComputeFinish(task, written))
       => /\ event'.kind = "response"
          /\ event'.id = task.id
          /\ event'.status = 500
          /\ event'.body.error = "sunscore_failed"
          /\ event'.body.message = "No weather data available"

\* C9: when the weather provider yields an empty sequence, a foreground
\* GET /api/sunscore ends with the response {error: "sunscore_failed"} of
\* status 500 (so GET returns, it does not throw), that response carries no
\* scores, and no step of the request writes under the aggregate key.
C9_EmptyWeatherFailsCleanly == [][C9_Step]_vars

\* Reached: a foreground request has just been answered with the failure
\* response for an empty weather sequence.
C9_Witness ==
  /\ event.kind = "response"
  /\ event.route = "sunscore"
  /\ event.status = 500
  /\ event.body.message = "No weather data available"


(***************************************************************************)
(* Claims about the cache over a damageable cache directory.               *)
(***************************************************************************)
\* The object has the fields of CacheEntry the claim names.
MatchesSchema(entry) ==
  Has(entry, "data") /\ Has(entry, "timestamp") /\ Has(entry, "ttl")

\* The file cannot be read as JSON text of an object: it is missing,
\* unreadable, not JSON, or the JSON text null.
FileThrows(f) == f = NoFile \/ FileReadFails(f)

\* The file is missing, unreadable, not valid JSON, or parses to a value that
\* does not match the entry schema.
FileUnusable(f) == FileThrows(f) \/ ~MatchesSchema(JSONparse(f.content))

\* get returned what a miss returns and left no memory entry for the key.
ReturnedMiss(key) ==
  /\ returned'.op = "get"
  /\ returned'.result.data = Null
  /\ returned'.result.isStale = FALSE
  /\ returned'.result.shouldRefresh = FALSE
  /\ memoryCache'[key] = NoEntry

C11_Step ==
  \A key \in DurableKeys :
    (GetCall(key)
       /\ MemoryResult(memoryCache, key, now).tier # "memory"
       /\ FileUnusable(fileStore[FileOf[key]]))
    => ReturnedMiss(key)

\* C11: when the memory tier does not answer and the file of the key is
\* missing, unreadable, not valid JSON or does not match the entry schema,
\* get returns {data: null, isStale: false, shouldRefresh: false} and leaves
\* the memory tier without an entry for the key.
C11_BadFileIsMiss == [][C11_Step]_vars

\* The same for the files whose reading throws: missing, unreadable, not
\* JSON, null.
C11_ThrowingStep ==
  \A key \in DurableKeys :
    (GetCall(key)
       /\ MemoryResult(memoryCache, key, now).tier # "memory"
       /\ FileThrows(fileStore[FileOf[key]]))
    => ReturnedMiss(key)
C11_ThrowingFileIsMiss == [][C11_ThrowingStep]_vars

\* get consulted memory first: when the memory tier has a usable entry, the
\* result is the memory tier's and nothing changes there.
MemoryAnswersFirst(key) ==
  MemoryResult(memoryCache, key, now).tier = "memory"
  => /\ returned'.result = MemoryResult(memoryCache, key, now)
     /\ memoryCache' = memoryCache

\* The file tier supplied the value get returned: a well-formed entry.
FileSupplied(key) ==
  /\ returned'.op = "get"
  /\ returned'.result.tier = "file"
  /\ MatchesSchema(returned'.result.entry)

\* The entry is back in the memory tier, which answers a get made next.
RestoredToMemory(key) ==
  /\ memoryCache'[key] = returned'.result.entry
  /\ MemoryResult(memoryCache', key, now').tier = "memory"

C12_Step ==
  \A key \in DurableKeys :
    GetCall(key)
    => /\ MemoryAnswersFirst(key)
       /\ FileSupplied(key) => RestoredToMemory(key)

\* C12: get answers from the memory tier when it has a usable entry, and
\* whenever the file tier supplies the returned value, fresh or stale, the
\* entry is put back into the memory tier, which serves the next get.
C12_FileHitRestoresMemory == [][C12_Step]_vars

\* For the file hits that are not expired (file age <= ttl) the entry is put
\* back into the memory tier.
C12_UnexpiredStep ==
  \A key \in DurableKeys :
    GetCall(key)
    => /\ MemoryAnswersFirst(key)
       /\ (FileSupplied(key)
             /\ ~isExpired(returned'.result.entry,
                           now - fileStore[FileOf[key]].mtimeMs))
          => memoryCache'[key] = returned'.result.entry
C12_UnexpiredFileHitRestoresMemory == [][C12_UnexpiredStep]_vars

(***************************************************************************)
(* Claims about cleanup.                                                   *)
(***************************************************************************)
\* The age of a memory entry exceeds ttl + swr, swr counted as 0 when absent
\* (an absent swr is held as 0).
PastTtlPlusSwr(entry, t) == t - entry.timestamp > entry.ttl + entry.swr

\* The memory pass: an entry is removed iff its age exceeds ttl + swr, the
\* others stay as they are, no entry the memory tier would still return is
\* removed, and what get returns for the key is what it returned before.
MemoryPassExact ==
  \A k \in DOMAIN memoryCache :
    /\ memoryCache[k] # NoEntry
       => /\ (memoryCache'[k] = NoEntry) = PastTtlPlusSwr(memoryCache[k], now)
          /\ memoryCache'[k] # NoEntry => memoryCache'[k] = memoryCache[k]
    /\ memoryCache[k] = NoEntry => memoryCache'[k] = NoEntry
    /\ MemoryResult(memoryCache, k, now).tier = "memory"
       => memoryCache'[k] = memoryCache[k]
    /\ getResult(memoryCache', fileStore', k, now)
         = getResult(memoryCache, fileStore, k, now)

\* The file pass: a file is removed iff its modification age, at the time
\* cleanup was called, exceeds 30 days, whatever entry it holds; when the
\* pass throws, the call still resolves.
FilePassExact ==
  /\ returned'.op = "cleanup"
  /\ returned'.outcome = "resolved"
  /\ ~returned'.threw
     => \A p \in DOMAIN fileStore :
          /\ fileStore[p] # NoFile
             => /\ (fileStore'[p] = NoFile)
                     = (returned'.now - fileStore[p].mtimeMs > RETENTION)
                /\ fileStore'[p] # NoFile => fileStore'[p] = fileStore[p]
          /\ fileStore[p] = NoFile => fileStore'[p] = NoFile
  /\ memoryCache' = memoryCache

C13_Step ==
  /\ CleanupCall => MemoryPassExact /\ fileStore' = fileStore
  /\ (\E task \in tasks, throws \in BOOLEAN : CleanupFiles(task, throws))
     => FilePassExact

\* C13: cleanup removes from the memory tier exactly the entries whose age
\* exceeds ttl + swr, never one that get would still return; it removes the
\* files whose modification age exceeds 30 days whatever their ttl; an error
\* in the file pass is not propagated.
C13_CleanupExact == [][C13_Step]_vars

\* Reached: a cleanup call has returned after deleting a memory entry and
\* unlinking a file.
C13_Witness ==
  /\ returned.op = "cleanup"
  /\ returned.deleted # {}
  /\ returned.unlinked # {}

(***************************************************************************)
(* Claims about the adaptive ttl of the aggregate entry.                   *)
(***************************************************************************)
\* The instant lies within 90 minutes of sunrise, sunset or solar noon.
NearSunEvent(instant) ==
  \E e \in {SunCalcTimes.sunrise, SunCalcTimes.sunset, SunCalcTimes.solarNoon} :
    Abs(instant - e) < 90 * 60 * 1000

\* The ttl and swr the claim gives the aggregate entry of a request.
ClaimedTtl(instant) ==
  IF NearSunEvent(instant) THEN 15 * 60 * 1000 ELSE 60 * 60 * 1000
ClaimedSwr == 10 * 60 * 1000

HasClaimedOptions(entry, instant) ==
  entry.ttl = ClaimedTtl(instant) /\ entry.swr = ClaimedSwr

\* Every aggregate entry held by a tier has the options claimed for the
\* instant of its key (one request instant per hour bucket), and every
\* computation in flight carries the ttl claimed for its request's instant.
C14_State ==
  /\ \A instant \in RequestInstants :
       LET key == ScoreKeyOf(instant)
       IN  /\ memoryCache[key] # NoEntry
              => HasClaimedOptions(memoryCache[key], instant)
           /\ fileStore[FileOf[key]] # NoFile
              => HasClaimedOptions(JSONparse(fileStore[FileOf[key]].content), instant)
  /\ \A task \in tasks :
       task.kind \in ComputeKinds => task.ttl = ClaimedTtl(task.instant)

\* The step in which a computation, foreground or background, stores its
\* result stores it with the options claimed for the instant of the request.
C14_Step ==
  \A task \in tasks :
    (task.kind \in ComputeKinds /\ ~ComputeFails(task)
       /\ \E written \in BOOLEAN : ComputeFinish(task, written))
    => /\ memoryCache'[ScoreKeyOf(task.instant)].timestamp = now
       /\ HasClaimedOptions(memoryCache'[ScoreKeyOf(task.instant)], task.instant)

TileUnits == 4

\* Math.floor(a / b) for b > 0.
FloorDiv(a, b) == a \div b
\* Math.round(a / b) for even b > 0: halves go up.
RoundDiv(a, b) == FloorDiv(2 * a + b, 2 * b)

\* coordsToTileId(lat, lon): `${tileX}_${tileY}`, held as the pair.
coordsToTileId(lat, lon) == << RoundDiv(lon, TileUnits), RoundDiv(lat, TileUnits) >>

\* tileIdToBounds(tileId)
tileIdToBounds(tileId) ==
  [west  |-> tileId[1] * TileUnits, east  |-> tileId[1] * TileUnits + TileUnits,
   south |-> tileId[2] * TileUnits, north |-> tileId[2] * TileUnits + TileUnits]

\* return null
NoPixel == [outside |-> TRUE]

\* coordsToPixel(lat, lon, tileInfo)
coordsToPixel(lat, lon, tileInfo) ==
  LET bounds == tileInfo.bounds
  IN  IF \/ lat < bounds.south \/ lat > bounds.north
         \/ lon < bounds.west \/ lon > bounds.east
      THEN NoPixel
      ELSE [x |-> FloorDiv((lon - bounds.west) * tileInfo.pixelWidth,
                           bounds.east - bounds.west),
            y |-> FloorDiv((bounds.north - lat) * tileInfo.pixelHeight,
                           bounds.north - bounds.south)]

\* The tiles coordsToPixel is examined on: the tile at the centre of Paris
\* and a neighbour, with masks of several sizes.
PixelSizes == {2, 3, 4}
ProbeTileIds == {<<0, 0>>, <<-1, 1>>}
ProbeTiles ==
  { [tileId |-> id, bounds |-> tileIdToBounds(id), pixelWidth |-> w, pixelHeight |-> h] :
      id \in ProbeTileIds, w \in PixelSizes, h \in PixelSizes }
\* The points: every grid point of the tiles and one unit around them.
ProbeCoords == (0 - TileUnits - 1) .. (2 * TileUnits + 1)

InitPixel ==
  /\ InitState({})
  /\ \E lat \in ProbeCoords, lon \in ProbeCoords, tileInfo \in ProbeTiles :
       probe = [fn |-> "coordsToPixel", lat |-> lat, lon |-> lon,
                tileInfo |-> tileInfo, done |-> FALSE, result |-> NoPixel]

\* The call is made.
CoordsToPixelCall ==
  /\ probe.fn = "coordsToPixel"
  /\ ~probe.done
  /\ probe' = [probe EXCEPT !.done = TRUE,
                 !.result = coordsToPixel(probe.lat, probe.lon, probe.tileInfo)]
  /\ UNCHANGED << now, memoryCache, fileStore >>
  /\ UNCHANGED cacheVars
  /\ UNCHANGED routeVars

PixelNext == CoordsToPixelCall

\* coordsToPixel on every point of the probe grid.
SpecPixel == InitPixel /\ [][PixelNext]_vars

(***************************************************************************)
(* Claims about the pixel mapping.                                         *)
(***************************************************************************)
\* The point of the call lies inside the tile's bounds, edges included.
InsideBounds ==
  /\ probe.tileInfo.bounds.south <= probe.lat
  /\ probe.lat <= probe.tileInfo.bounds.north
  /\ probe.tileInfo.bounds.west <= probe.lon
  /\ probe.lon <= probe.tileInfo.bounds.east

\* The pixel is inside the mask and index y * width + x is row y, column x.
PixelInMask(pixel, tileInfo) ==
  /\ pixel # NoPixel
  /\ 0 <= pixel.x /\ pixel.x < tileInfo.pixelWidth
  /\ 0 <= pixel.y /\ pixel.y < tileInfo.pixelHeight
  /\ (pixel.y * tileInfo.pixelWidth + pixel.x) \div tileInfo.pixelWidth = pixel.y
  /\ (pixel.y * tileInfo.pixelWidth + pixel.x) % tileInfo.pixelWidth = pixel.x

\* C15: for every point inside a tile's bounds, edges included, coordsToPixel
\* yields 0 <= x < pixelWidth and 0 <= y < pixelHeight; the north-west corner
\* maps to (0, 0), the south-east corner to (pixelWidth - 1, pixelHeight - 1),
\* and index y * width + x is the sample of row y, column x.
C15_PixelInsideMask ==
  (probe.fn = "coordsToPixel" /\ probe.done /\ InsideBounds)
  => /\ PixelInMask(probe.result, probe.tileInfo)
     /\ (probe.lat = probe.tileInfo.bounds.north /\ probe.lon = probe.tileInfo.bounds.west)
        => (probe.result.x = 0 /\ probe.result.y = 0)
     /\ (probe.lat = probe.tileInfo.bounds.south /\ probe.lon = probe.tileInfo.bounds.east)
        => /\ probe.result.x = probe.tileInfo.pixelWidth - 1
           /\ probe.result.y = probe.tileInfo.pixelHeight - 1

\* The same for the points inside the bounds that are not on the east or the
\* south edge.
C15_PixelInsideMaskOffEdges ==
  (/\ probe.fn = "coordsToPixel" /\ probe.done /\ InsideBounds
   /\ probe.lon < probe.tileInfo.bounds.east
   /\ probe.lat > probe.tileInfo.bounds.south)
  => /\ PixelInMask(probe.result, probe.tileInfo)
     /\ (probe.lat = probe.tileInfo.bounds.north /\ probe.lon = probe.tileInfo.bounds.west)
        => (probe.result.x = 0 /\ probe.result.y = 0)

(***************************************************************************)
(* The shadow resolver, src/app/lib/voxcity.ts.  A shadow value is a mask  *)
(* sample over 255 and is held here as the sample itself (in 255ths); a    *)
(* confidence is held in hundredths.  The instant enters through the month *)
(* and the hour the server's clock gives for it.                           *)
(***************************************************************************)
\* hourToTimeSlot(hour)
hourToTimeSlotNoonFromTen(hour) ==
  IF hour >= 8 /\ hour < 10 THEN "morning"
  ELSE IF hour >= 10 /\ hour <= 13 THEN "noon"
  ELSE IF hour >= 14 /\ hour <= 16 THEN "afternoon"
  ELSE IF hour < 11 THEN "morning"
  ELSE IF hour < 14 THEN "noon"
  ELSE "afternoon"

hourToTimeSlot(hour) ==
  IF hour >= 8 /\ hour <= 10 THEN "morning"
  ELSE IF hour >= 11 /\ hour <= 13 THEN "noon"
  ELSE IF hour >= 14 /\ hour <= 16 THEN "afternoon"
  ELSE IF hour < 11 THEN "morning"
  ELSE IF hour < 14 THEN "noon"
  ELSE "afternoon"

\* loadVoxMetadata() returned null
NoMetadata == [loaded |-> FALSE]
\* the mask file could not be read or parsed
NoMaskFile == [readable |-> FALSE]
\* { precision: 'heuristic', shadowValue: 0, confidence: 0 }
HeuristicSentinel == [precision |-> "heuristic", shadowValue |-> 0, confidence |-> 0]
\* metadata.tiles or metadata.masks is undefined: the call of find throws
\* outside the try block and the promise of getVoxShadowValue rejects
Rejected == [rejected |-> "TypeError"]
\* confidence: 0.95, in hundredths
VoxConfidence == 95

\* pixelIndex >= 0 && pixelIndex < maskData.shadows.length
IndexInRange(pixelIndex, shadows) == pixelIndex >= 0 /\ pixelIndex < Len(shadows)

\* maskData.shadows[pixelIndex]; undefined past the end of the array
SampleAt(shadows, pixelIndex) ==
  IF pixelIndex + 1 \in DOMAIN shadows THEN shadows[pixelIndex + 1] ELSE 0

\* getVoxShadowValue(lat, lon, date); maskFiles[<<tileId, month, timeSlot>>]
\* is what the file tiles/<tileId>/2024-<MM>-<timeSlot>.json holds
getVoxShadowValue(metadata, maskFiles, lat, lon, month, hour) ==
  IF metadata = NoMetadata THEN HeuristicSentinel
  ELSE IF ~Has(metadata, "tiles") THEN Rejected
  ELSE
    LET tileId == coordsToTileId(lat, lon)
        found  == { t \in metadata.tiles : t.tileId = tileId }
    IN  IF found = {} THEN HeuristicSentinel
        ELSE
          LET tileInfo    == CHOOSE t \in found : TRUE
              pixelCoords == coordsToPixel(lat, lon, tileInfo)
              timeSlot    == hourToTimeSlot(hour)
          IN  IF pixelCoords = NoPixel THEN HeuristicSentinel
              ELSE IF ~Has(metadata, "masks") THEN Rejected
              ELSE IF ~\E mk \in metadata.masks :
                         mk.tileId = tileId /\ mk.month = month /\ mk.timeSlot = timeSlot
                   THEN HeuristicSentinel
              ELSE
                LET maskData   == maskFiles[<<tileId, month, timeSlot>>]
                IN  IF maskData = NoMaskFile THEN HeuristicSentinel
                    ELSE
                      LET pixelIndex == pixelCoords.y * maskData.width + pixelCoords.x
                      IN  IF IndexInRange(pixelIndex, maskData.shadows)
                          THEN [precision   |-> "voxcity",
                                shadowValue |-> SampleAt(maskData.shadows, pixelIndex),
                                confidence  |-> VoxConfidence,
                                tileId      |-> tileId,
                                coordinates |-> pixelCoords]
                          ELSE HeuristicSentinel

\* The time slots a mask exists for.
TimeSlots == {"morning", "noon", "afternoon"}
SlotIndex(timeSlot) ==
  IF timeSlot = "morning" THEN 0 ELSE IF timeSlot = "noon" THEN 1 ELSE 2

\* pixelsPerTile of the tiles the resolver is examined on
MaskSide == 2

\* A tile as the generator writes it: bounds half a tile around the centre.
GeneratedTile(id) ==
  [tileId |-> id,
   bounds |-> [west  |-> id[1] * TileUnits - TileUnits \div 2,
               east  |-> id[1] * TileUnits + TileUnits \div 2,
               south |-> id[2] * TileUnits - TileUnits \div 2,
               north |-> id[2] * TileUnits + TileUnits \div 2],
   pixelWidth |-> MaskSide, pixelHeight |-> MaskSide]

MaskRef(id, month, timeSlot) == [tileId |-> id, month |-> month, timeSlot |-> timeSlot]

\* The months of the instants examined, and the months masks are listed for.
ProbeMonths == {1, 6, 12}
MaskMonths == {6, 12}
ProbeHours == 0 .. 23
CentreTile == <<0, 0>>

\* The metadata documents: none, documents that parse but lack a list, and
\* documents of the declared shape with and without the tile and its masks.
ListedMasks == { MaskRef(CentreTile, mo, sl) : mo \in MaskMonths, sl \in TimeSlots }
ProbeMetadata ==
  { NoMetadata,
    [version |-> "1.0.0"],
    [version |-> "1.0.0", tiles |-> {GeneratedTile(CentreTile)}],
    [version |-> "1.0.0", tiles |-> {}, masks |-> {}],
    [version |-> "1.0.0", tiles |-> {GeneratedTile(CentreTile)}, masks |-> {}],
    [version |-> "1.0.0", tiles |-> {GeneratedTile(CentreTile)}, masks |-> ListedMasks] }

MaskNames == { <<CentreTile, mo, sl>> : mo \in ProbeMonths, sl \in TimeSlots }

\* A mask file whose samples tell its month and slot apart.
MaskOf(name, length) ==
  [width |-> MaskSide, height |-> MaskSide,
   shadows |-> [i \in 1 .. length |-> name[2] * 16 + SlotIndex(name[3]) * 4 + (i - 1)]]

\* A mask file holding only the two ends of the sample range.
ExtremeMask ==
  [width |-> MaskSide, height |-> MaskSide, shadows |-> <<0, 255, 255, 0>>]

\* The mask directories: no file, full masks, masks cut short, extremes.
ProbeMaskFiles ==
  { [n \in MaskNames |-> NoMaskFile],
    [n \in MaskNames |-> MaskOf(n, MaskSide * MaskSide)],
    [n \in MaskNames |-> MaskOf(n, 1)],
    [n \in MaskNames |-> ExtremeMask] }

VoxCoords == (0 - TileUnits + 1) .. (TileUnits - 1)

InitVox ==
  /\ InitState({})
  /\ \E lat \in VoxCoords, lon \in VoxCoords, month \in ProbeMonths, hour \in ProbeHours,
        metadata \in ProbeMetadata, maskFiles \in ProbeMaskFiles :
       probe = [fn |-> "getVoxShadowValue", lat |-> lat, lon |-> lon,
                month |-> month, hour |-> hour, metadata |-> metadata,
                maskFiles |-> maskFiles, done |-> FALSE, result |-> HeuristicSentinel]

\* The call is made and its promise settles.
GetVoxShadowValueCall ==
  /\ probe.fn = "getVoxShadowValue"
  /\ ~probe.done
  /\ probe' = [probe EXCEPT !.done = TRUE,
                 !.result = getVoxShadowValue(probe.metadata, probe.maskFiles, probe.lat,
                                              probe.lon, probe.month, probe.hour)]
  /\ UNCHANGED << now, memoryCache, fileStore >>
  /\ UNCHANGED cacheVars
  /\ UNCHANGED routeVars

VoxNext == GetVoxShadowValueCall

\* getVoxShadowValue on every point, instant, metadata and mask directory.
SpecVox == InitVox /\ [][VoxNext]_vars

(***************************************************************************)
(* Claims about the shadow resolver.                                       *)
(***************************************************************************)
\* The conditions of a precomputed answer, each stated on the inputs.
MetadataLoads == probe.metadata # NoMetadata
ProbeTileId == coordsToTileId(probe.lat, probe.lon)
TileListed ==
  /\ MetadataLoads
  /\ Has(probe.metadata, "tiles")
  /\ \E t \in probe.metadata.tiles : t.tileId = ProbeTileId
ListedTile == CHOOSE t \in probe.metadata.tiles : t.tileId = ProbeTileId
PointInTile ==
  /\ TileListed
  /\ probe.lat >= ListedTile.bounds.south /\ probe.lat <= ListedTile.bounds.north
  /\ probe.lon >= ListedTile.bounds.west /\ probe.lon <= ListedTile.bounds.east
MaskListedFor(timeSlot) ==
  /\ MetadataLoads
  /\ Has(probe.metadata, "masks")
  /\ MaskRef(ProbeTileId, probe.month, timeSlot) \in probe.metadata.masks
MaskFileFor(timeSlot) == probe.maskFiles[<<ProbeTileId, probe.month, timeSlot>>]
ProbePixel == coordsToPixel(probe.lat, probe.lon, ListedTile)
ProbeIndex(timeSlot) == ProbePixel.y * MaskFileFor(timeSlot).width + ProbePixel.x
PrecomputedConditions(timeSlot) ==
  /\ PointInTile
  /\ MaskListedFor(timeSlot)
  /\ MaskFileFor(timeSlot) # NoMaskFile
  /\ ProbeIndex(timeSlot) >= 0
  /\ ProbeIndex(timeSlot) < Len(MaskFileFor(timeSlot).shadows)
PrecomputedAnswer(timeSlot) ==
  [precision   |-> "voxcity",
   shadowValue |-> MaskFileFor(timeSlot).shadows[ProbeIndex(timeSlot) + 1],
   confidence  |-> VoxConfidence,
   tileId      |-> ProbeTileId,
   coordinates |-> ProbePixel]
VoxDone == probe.fn = "getVoxShadowValue" /\ probe.done

\* C16: getVoxShadowValue answers with the precomputed record (sample over
\* 255, confidence 0.95, tile id, pixel coordinates) exactly when the
\* metadata loads, the tile of the point is listed, the point is in its
\* bounds, a mask is listed for the tile, month and slot, the mask file loads
\* and the pixel index is inside the samples; in every other case it answers
\* with the heuristic sentinel.
C16_PrecomputedOrSentinel ==
  VoxDone =>
    IF PrecomputedConditions(hourToTimeSlot(probe.hour))
    THEN probe.result = PrecomputedAnswer(hourToTimeSlot(probe.hour))
    ELSE probe.result = HeuristicSentinel

\* The metadata document has the lists the resolver reads.
MetadataTyped ==
  MetadataLoads => Has(probe.metadata, "tiles") /\ Has(probe.metadata, "masks")

\* C16 on metadata documents that hold both lists.
C16_PrecomputedOrSentinelTyped ==
  (VoxDone /\ MetadataTyped) =>
    IF PrecomputedConditions(hourToTimeSlot(probe.hour))
    THEN probe.result = PrecomputedAnswer(hourToTimeSlot(probe.hour))
    ELSE probe.result = HeuristicSentinel

\* The slot the thresholds 11 and 14 give.
SlotByThreshold(hour) ==
  IF hour < 11 THEN "morning" ELSE IF hour < 14 THEN "noon" ELSE "afternoon"

\* The call gets as far as looking a mask up.
MaskLookedUp == PointInTile /\ Has(probe.metadata, "masks")

deg(r) == (r * 180) \div 180

Min2(a, b) == IF a < b THEN a ELSE b
Max2(a, b) == IF a > b THEN a ELSE b

\* Math.max(a, x): the upper bound is dropped
clampLowerOnly(x, a, b) == Max2(a, x)

\* clamp(x, a, b) = Math.max(a, Math.min(b, x))
clamp(x, a, b) == Max2(a, Min2(b, x))

\* Twice Math.cos of an angle that is a multiple of 60 degrees.
Cos2(a) ==
  LET r == ((a % 360) + 360) % 360
  IN  IF r = 0 THEN 2
      ELSE IF r = 60 \/ r = 300 THEN 1
      ELSE IF r = 120 \/ r = 240 THEN -1
      ELSE -2

\* facingScore = Math.max(0, Math.cos(normalizedDiff)), in halves
facingScore(sunAzimuth, cafeOrientation) ==
  LET cafeAzimuthRad == cafeOrientation - 180
      azimuthDiff    == Abs(sunAzimuth - cafeAzimuthRad)
      normalizedDiff == Min2(azimuthDiff, 360 - azimuthDiff)
  IN  Max2(0, Cos2(normalizedDiff))

\* elevScore = clamp((sunElevationDeg - 8) / 20, 0, 1), in twentieths
elevScore(sunElevationDeg) == clamp(sunElevationDeg - 8, 0, 20)
\* cloudPenalty = 1 - cloudCover / 100, in hundredths
cloudPenalty(cloudCover) == 100 - cloudCover
\* radiationBonus = directRadiation > 100 ? 1.1 : 1.0, in tenths
radiationBonus(directRadiation) == IF directRadiation > 100 THEN 11 ELSE 10

\* The denominators of the factors.
FacingDen == 2
ElevDen == 20
CloudDen == 100
BonusDen == 10
ShadowDen == 255
\* shadowPenalty of computeSunScore, in 100 * 10 * 10 ths
PenaltyDen == 10 * 100 * 10
SunScoreDen == FacingDen * ElevDen * CloudDen * BonusDen * PenaltyDen
ScoreDen == ShadowDen * FacingDen * ElevDen * CloudDen * BonusDen

\* computeSunScore(...), over SunScoreDen; dense is isDenseArea(lat, lon)
computeSunScore(sunAzimuth, sunElevation, cafeOrientation, cloudCover, directRadiation, dense) ==
  LET sunElevationDeg     == deg(sunElevation)
      timeBasedShadowRisk == IF sunElevationDeg < 20 THEN 8 ELSE 10
      locationPenalty     == IF dense THEN 85 ELSE 95
      orientationPenalty  == IF cafeOrientation = 0 THEN 8 ELSE 10
      shadowPenalty       == timeBasedShadowRisk * locationPenalty * orientationPenalty
      score == facingScore(sunAzimuth, cafeOrientation) * elevScore(sunElevationDeg)
                 * cloudPenalty(cloudCover) * radiationBonus(directRadiation)
                 * shadowPenalty
  IN  IF sunElevationDeg < 5 THEN 0 ELSE clamp(score, 0, SunScoreDen)

\* the sun is tested against the horizon only
SunTooLowBelowHorizon(sunElevationDeg) == sunElevationDeg < 0

\* sunElevationDeg < 5
SunTooLow(sunElevationDeg) == sunElevationDeg < 5

\* { score: 0, method: 'heuristic', confidence: 1 }
TooLowResult == [score |-> 0, method |-> "heuristic", confidence |-> 100]
\* let confidence = 0.7, in hundredths
HeuristicConfidence == 70
\* shadowFactor = heuristicScore > 0 ? 0.8 : 0.2, in 255ths
ShadowFactorLit == 204
ShadowFactorDim == 51

\* the precision of the resolver's result is not tested: whatever it
\* resolves to is taken as precomputed
computeHybridSunScoreUntested(sunAzimuth, sunElevation, cafeOrientation, cloudCover, directRadiation, dense, voxResult, usePrecision) ==
  LET sunElevationDeg == deg(sunElevation)
      precise == usePrecision /\ voxResult # Rejected
      heuristicScore == computeSunScore(sunAzimuth, sunElevation, cafeOrientation,
                                        cloudCover, directRadiation, dense)
      shadowFactor == IF precise THEN voxResult.shadowValue
                      ELSE IF heuristicScore > 0 THEN ShadowFactorLit ELSE ShadowFactorDim
      finalScore == clamp(shadowFactor * facingScore(sunAzimuth, cafeOrientation)
                            * elevScore(sunElevationDeg) * cloudPenalty(cloudCover)
                            * radiationBonus(directRadiation),
                          0, ScoreDen)
  IN  IF SunTooLow(sunElevationDeg) THEN TooLowResult
      ELSE [score      |-> finalScore,
            method     |-> IF precise THEN "voxcity" ELSE "heuristic",
            confidence |-> IF precise THEN voxResult.confidence ELSE HeuristicConfidence]

\* computeHybridSunScore(...); voxResult is what getVoxShadowValue settles
\* to for (cafeLat, cafeLon, hourTime)
computeHybridSunScore(sunAzimuth, sunElevation, cafeOrientation, cloudCover, directRadiation, dense, voxResult, usePrecision) ==
  LET sunElevationDeg == deg(sunElevation)
      precise == /\ usePrecision
                 /\ voxResult # Rejected
                 /\ voxResult.precision = "voxcity"
      heuristicScore == computeSunScore(sunAzimuth, sunElevation, cafeOrientation,
                                        cloudCover, directRadiation, dense)
      shadowFactor == IF precise THEN voxResult.shadowValue
                      ELSE IF heuristicScore > 0 THEN ShadowFactorLit ELSE ShadowFactorDim
      finalScore == clamp(shadowFactor * facingScore(sunAzimuth, cafeOrientation)
                            * elevScore(sunElevationDeg) * cloudPenalty(cloudCover)
                            * radiationBonus(directRadiation),
                          0, ScoreDen)
  IN  IF SunTooLow(sunElevationDeg) THEN TooLowResult
      ELSE [score      |-> finalScore,
            method     |-> IF precise THEN "voxcity" ELSE "heuristic",
            confidence |-> IF precise THEN voxResult.confidence ELSE HeuristicConfidence]

\* the resolver is called whatever the precision mode
ResolverCallsAnyMode(sunElevation, usePrecision) ==
  IF SunTooLow(deg(sunElevation)) THEN 0 ELSE 1

\* How many times computeHybridSunScore calls getVoxShadowValue.
ResolverCalls(sunElevation, usePrecision) ==
  IF SunTooLow(deg(sunElevation)) THEN 0 ELSE IF usePrecision THEN 1 ELSE 0

\* One turn of the scoring loop of computeFreshSunScores for a point and
\* an hour, given the geometry the loop holds: the score pushed and the
\* usage counter incremented.
scorePointHour(azimuth, elevation, cafeOrientation, cloudCover, directRadiation, dense, voxResult, usePrecision) ==
  IF deg(elevation) < 5
  THEN [score |-> 0, counted |-> "heuristic"]
  ELSE LET r == computeHybridSunScore(azimuth, elevation, cafeOrientation, cloudCover,
                                      directRadiation, dense, voxResult, usePrecision)
       IN  [score |-> r.score, counted |-> r.method]

\* The inputs the scorer is examined on.
ProbeElevations == {-10, 0, 4, 5, 6, 8, 18, 28, 40, 90}
ProbeAzimuths == {-120, 0, 60, 240}
ProbeOrientations == {0, 120, 180, 240}
ProbeCloudCover == {-50, 0, 50, 100, 150}
ProbeRadiation == {100, 101}
ScorerMetadata ==
  { NoMetadata,
    [version |-> "1.0.0"],
    [version |-> "1.0.0", tiles |-> {GeneratedTile(CentreTile)}, masks |-> ListedMasks] }
ScorerMaskFiles ==
  { [n \in MaskNames |-> MaskOf(n, MaskSide * MaskSide)],
    [n \in MaskNames |-> ExtremeMask] }
ScorerCoords == {-1, 0}
ScorerMonth == 6
ScorerHour == 12
NoVoxCall == [called |-> FALSE]

InitScore ==
  /\ InitState({})
  /\ \E fn \in {"computeHybridSunScore", "scorePointHour"},
        sunElevation \in ProbeElevations, sunAzimuth \in ProbeAzimuths,
        cafeOrientation \in ProbeOrientations, cloudCover \in ProbeCloudCover,
        directRadiation \in ProbeRadiation, dense \in BOOLEAN, usePrecision \in BOOLEAN,
        metadata \in ScorerMetadata, maskFiles \in ScorerMaskFiles,
        lat \in ScorerCoords, lon \in ScorerCoords :
       probe = [fn |-> fn, sunElevation |-> sunElevation, sunAzimuth |-> sunAzimuth,
                cafeOrientation |-> cafeOrientation, cloudCover |-> cloudCover,
                directRadiation |-> directRadiation, dense |-> dense,
                usePrecision |-> usePrecision, metadata |-> metadata,
                maskFiles |-> maskFiles, lat |-> lat, lon |-> lon,
                month |-> ScorerMonth, hour |-> ScorerHour,
                done |-> FALSE, voxCalls |-> 0, voxResult |-> NoVoxCall,
                result |-> TooLowResult]

\* What getVoxShadowValue settles to for the point and hour of the probe.
ProbeVoxResult ==
  getVoxShadowValue(probe.metadata, probe.maskFiles, probe.lat, probe.lon,
                    probe.month, probe.hour)

\* computeHybridSunScore is called on the inputs of the probe.
ComputeHybridSunScoreCall ==
  /\ probe.fn = "computeHybridSunScore"
  /\ ~probe.done
  /\ LET calls == ResolverCalls(probe.sunElevation, probe.usePrecision)
     IN  probe' = [probe EXCEPT
                     !.done = TRUE,
                     !.voxCalls = calls,
                     !.voxResult = IF calls > 0 THEN ProbeVoxResult ELSE NoVoxCall,
                     !.result = computeHybridSunScore(probe.sunAzimuth, probe.sunElevation,
                                  probe.cafeOrientation, probe.cloudCover,
                                  probe.directRadiation, probe.dense, ProbeVoxResult,
                                  probe.usePrecision)]
  /\ UNCHANGED << now, memoryCache, fileStore >>
  /\ UNCHANGED cacheVars
  /\ UNCHANGED routeVars

\* The scoring loop takes one turn on the inputs of the probe.
ScorePointHourCall ==
  /\ probe.fn = "scorePointHour"
  /\ ~probe.done
  /\ LET calls == IF deg(probe.sunElevation) < 5 THEN 0
                  ELSE ResolverCalls(probe.sunElevation, probe.usePrecision)
     IN  probe' = [probe EXCEPT
                     !.done = TRUE,
                     !.voxCalls = calls,
                     !.voxResult = IF calls > 0 THEN ProbeVoxResult ELSE NoVoxCall,
                     !.result = scorePointHour(probe.sunAzimuth, probe.sunElevation,
                                  probe.cafeOrientation, probe.cloudCover,
                                  probe.directRadiation, probe.dense, ProbeVoxResult,
                                  probe.usePrecision)]
  /\ UNCHANGED << now, memoryCache, fileStore >>
  /\ UNCHANGED cacheVars
  /\ UNCHANGED routeVars

ScoreNext == ComputeHybridSunScoreCall \/ ScorePointHourCall

\* The scorer and the scoring loop on every input of the probe sets.
SpecScore == InitScore /\ [][ScoreNext]_vars

(***************************************************************************)
(* Claims about the hybrid scorer.                                         *)
(***************************************************************************)
HybridDone == probe.fn = "computeHybridSunScore" /\ probe.done
LoopDone == probe.fn = "scorePointHour" /\ probe.done

\* C18: with the sun below 5 degrees computeHybridSunScore returns exactly
\* score 0, method heuristic, confidence 1 and does not call the shadow
\* resolver, and the scoring loop records 0 for the point and hour and
\* counts a heuristic calculation.
C18_SunTooLowShortCircuit ==
  /\ (HybridDone /\ deg(probe.sunElevation) < 5) =>
       /\ probe.result = [score |-> 0, method |-> "heuristic", confidence |-> 100]
       /\ probe.voxCalls = 0
  /\ (LoopDone /\ deg(probe.sunElevation) < 5) =>
       /\ probe.result = [score |-> 0, counted |-> "heuristic"]
       /\ probe.voxCalls = 0

\* The sun stands at 4 degrees over a point a precomputed mask covers, in
\* precision mode, under a clear sky.
C18_Witness ==
  /\ HybridDone
  /\ probe.sunElevation = 4
  /\ probe.usePrecision
  /\ probe.cloudCover = 0
  /\ ProbeVoxResult # Rejected
  /\ ProbeVoxResult.precision = "voxcity"
  /\ probe.result.score = 0
  /\ probe.result.confidence = 100

\* The product of the factors before the final clamp.
UnclampedScore ==
  LET shadowFactor ==
        IF probe.result.method = "voxcity" THEN probe.voxResult.shadowValue
        ELSE IF computeSunScore(probe.sunAzimuth, probe.sunElevation,
                                probe.cafeOrientation, probe.cloudCover,
                                probe.directRadiation, probe.dense) > 0
             THEN ShadowFactorLit ELSE ShadowFactorDim
  IN  shadowFactor * facingScore(probe.sunAzimuth, probe.cafeOrientation)
        * elevScore(deg(probe.sunElevation)) * cloudPenalty(probe.cloudCover)
        * radiationBonus(probe.directRadiation)

\* C19: every score computeHybridSunScore returns lies in 0..1 and every
\* shadow value getVoxShadowValue returns lies in 0..1, whatever the
\* azimuth, elevation and orientation, with cloud cover at and beyond the
\* ends of 0..100, with the 1.1 radiation bonus on factors that are all 1,
\* and for mask samples from 0 to 255.
C19_ScoreAndShadowInUnitRange ==
  (probe.fn \in {"computeHybridSunScore", "scorePointHour"} /\ probe.done) =>
    /\ probe.result.score >= 0
    /\ probe.result.score <= ScoreDen
    /\ (probe.voxCalls > 0 /\ probe.voxResult # Rejected) =>
         /\ probe.voxResult.shadowValue >= 0
         /\ probe.voxResult.shadowValue <= ShadowDen

\* Every factor is 1 and the radiation bonus is applied: the product is
\* 1.1 and the score returned is 1.
C19_Witness ==
  /\ HybridDone
  /\ ~SunTooLow(deg(probe.sunElevation))
  /\ probe.result.method = "voxcity"
  /\ probe.voxResult.shadowValue = ShadowDen
  /\ facingScore(probe.sunAzimuth, probe.cafeOrientation) = FacingDen
  /\ elevScore(deg(probe.sunElevation)) = ElevDen
  /\ probe.cloudCover = 0
  /\ probe.directRadiation > 100
  /\ UnclampedScore > ScoreDen
  /\ probe.result.score = ScoreDen

(***************************************************************************)
(* The geometry cache of the scoring loop, getCachedSunGeometry.           *)
(***************************************************************************)
\* sunAt(hourTime, lat, lon): SunCalc.getPosition is a function of the
\* instant and the point; its value is held as the arguments it is the
\* value for.
sunAt(hourTime, lat, lon) ==
  [azimuth   |-> [of |-> "azimuth", dt |-> hourTime, lat |-> lat, lon |-> lon],
   elevation |-> [of |-> "altitude", dt |-> hourTime, lat |-> lat, lon |-> lon]]

\* { ttl: CACHE_TIMES.SUN_GEOMETRY }
GeometryOptions == [ttl |-> SUN_GEOMETRY, swr |-> 0]

\* cached && typeof cached === 'object' && 'azimuth' in cached && 'elevation' in cached
IsGeometry(data) == Has(data, "azimuth") /\ Has(data, "elevation")

\* The instants the geometry cache is used at.
GeometryTimes == { 0, SUN_GEOMETRY + 1 }

InitGeometry == InitOn(GeometryKeys)

\* The clock advances to a later value.
GeometryTick ==
  /\ \E t \in GeometryTimes : t > now /\ now' = t
  /\ returned' = NoCall
  /\ UNCHANGED << memoryCache, fileStore, setCalls, setCount, latestSet >>
  /\ UNCHANGED routeVars
  /\ UNCHANGED probe

\* getCachedSunGeometry(hourTime, lat, lon): cache.get under the geometry
\* key; a cached geometry is returned, otherwise sunAt is computed, stored
\* with cache.set (whose durable write succeeds or fails) and returned.
GetCachedSunGeometry(hourTime, lat, lon, written) ==
  LET geoKey   == GeometryKeyOf(lat, lon, hourTime)
      r        == getResult(memoryCache, fileStore, geoKey, now)
      afterGet == getMemory(memoryCache, fileStore, geoKey, now)
      geometry == sunAt(hourTime, lat, lon)
  IN  IF r.data # Null /\ IsGeometry(r.data)
      THEN /\ memoryCache' = afterGet
           /\ returned' = [op |-> "getCachedSunGeometry", hourTime |-> hourTime,
                           lat |-> lat, lon |-> lon, geometry |-> r.data,
                           cached |-> TRUE]
           /\ UNCHANGED fileStore
      ELSE /\ memoryCache' = cacheSetMemory(afterGet, geoKey, geometry, GeometryOptions, now)
           /\ fileStore' = cacheSetFiles(fileStore, geoKey, geometry, GeometryOptions, now, written)
           /\ returned' = [op |-> "getCachedSunGeometry", hourTime |-> hourTime,
                           lat |-> lat, lon |-> lon, geometry |-> geometry,
                           cached |-> FALSE]

GeometryCall ==
  /\ \E hourTime \in GeometryHours, pt \in GeometryPoints, written \in BOOLEAN :
       GetCachedSunGeometry(hourTime, pt[1], pt[2], written)
  /\ UNCHANGED << now, setCalls, setCount, latestSet >>
  /\ UNCHANGED routeVars
  /\ UNCHANGED probe

GeometryNext ==
  \/ GeometryTick
  \/ GeometryCall
  \/ Restart

\* The geometry cache under the calls of the scoring loop.
SpecGeometry == InitGeometry /\ [][GeometryNext]_vars

(***************************************************************************)
(* Claims about the geometry cache.                                        *)
(***************************************************************************)
GeometryReturned == returned # NoCall /\ returned.op = "getCachedSunGeometry"

\* C20: the azimuth and elevation handed to the scorer for a point and an
\* hour are the astronomy provider's output for that instant and that
\* point; a value computed for another hour of the day or for another
\* point is never reused.
C20_GeometryOfInstantAndPoint ==
  GeometryReturned =>
    returned.geometry = sunAt(returned.hourTime, returned.lat, returned.lon)

\* What does hold: the geometry returned is the provider's output for some
\* instant of the same UTC day and some point of the same cell of 0.0001
\* degree.
C20_GeometryOfSameDayAndCell ==
  GeometryReturned =>
    \E h \in GeometryHours, pt \in GeometryPoints :
      /\ DayOf(h) = DayOf(returned.hourTime)
      /\ toFixed4(pt[1]) = toFixed4(returned.lat)
      /\ toFixed4(pt[2]) = toFixed4(returned.lon)
      /\ returned.geometry = sunAt(h, pt[1], pt[2])

(***************************************************************************)
(* Claims about concurrent writers of the cache.                           *)
(***************************************************************************)
\* The durable write of entry succeeds in this step and is the last pending
\* one, and the file already held the entry of another set call on the same
\* key: two set calls on the key have both completed with their file written.
BothSetsCompleted(entry) ==
  /\ setCalls = {entry}
  /\ setCalls' = {}
  /\ returned'.op = "set" /\ returned'.written /\ returned'.entry = entry
  /\ fileStore[FileOf[entry.key]] # NoFile
  /\ ~FileReadFails(fileStore[FileOf[entry.key]])
  /\ JSONparse(fileStore[FileOf[entry.key]].content).key = entry.key
  /\ JSONparse(fileStore[FileOf[entry.key]].content) # entry
  /\ memoryCache'[entry.key] # NoEntry

C21_Step ==
  \A entry \in setCalls :
    BothSetsCompleted(entry) =>
      JSONparse(fileStore'[FileOf[entry.key]].content) = memoryCache'[entry.key]

\* C21: when two set calls on one key overlap, after both have completed
\* the file and the memory tier hold the same entry, so a get served from
\* the file returns the value the memory tier held.
C21_ConcurrentSetsConverge == [][C21_Step]_vars

\* C21 for set calls that complete in the order they were made, with the
\* entry of the later one still in memory.
C21_OrderedStep ==
  \A entry \in setCalls :
    (/\ BothSetsCompleted(entry)
     /\ entry = latestSet[entry.key]
     /\ memoryCache[entry.key] = entry)
      => JSONparse(fileStore'[FileOf[entry.key]].content) = memoryCache'[entry.key]

C21_OrderedSetsConverge == [][C21_OrderedStep]_vars

(***************************************************************************)
(* The tile grid: coordsToTileId, tileIdToBounds and the tiles the offline *)
(* generator writes into the metadata.                                     *)
(***************************************************************************)
InitGrid ==
  /\ InitState({})
  /\ \E lat \in ProbeCoords, lon \in ProbeCoords :
       probe = [fn |-> "coordsToTileId", lat |-> lat, lon |-> lon, done |-> FALSE,
                tileId |-> CentreTile, bounds |-> tileIdToBounds(CentreTile),
                tileInfo |-> GeneratedTile(CentreTile), pixel |-> NoPixel]

\* The point is mapped to its tile id; the bounds tileIdToBounds gives for
\* the id, the tile the generator writes for it and the resolver's bounds
\* check of the point against that tile are recorded.
GridCall ==
  /\ probe.fn = "coordsToTileId"
  /\ ~probe.done
  /\ LET tileId == coordsToTileId(probe.lat, probe.lon)
     IN  probe' = [probe EXCEPT
                     !.done = TRUE,
                     !.tileId = tileId,
                     !.bounds = tileIdToBounds(tileId),
                     !.tileInfo = GeneratedTile(tileId),
                     !.pixel = coordsToPixel(probe.lat, probe.lon, GeneratedTile(tileId))]
  /\ UNCHANGED << now, memoryCache, fileStore >>
  /\ UNCHANGED cacheVars
  /\ UNCHANGED routeVars

GridNext == GridCall

\* The grid functions on every point of the probe grid.
SpecGrid == InitGrid /\ [][GridNext]_vars

(***************************************************************************)
(* Claims about the tile grid.                                             *)
(***************************************************************************)
GridDone == probe.fn = "coordsToTileId" /\ probe.done
Contains(bounds, lat, lon) ==
  /\ lat >= bounds.south /\ lat <= bounds.north
  /\ lon >= bounds.west /\ lon <= bounds.east

\* C22: tileIdToBounds and the generator give a tile id the same rectangle,
\* the rectangle contains every point coordsToTileId maps to the id, and
\* the resolver's bounds check accepts every point whose tile is listed.
C22_GridContainment ==
  GridDone =>
    /\ probe.bounds = probe.tileInfo.bounds
    /\ Contains(probe.bounds, probe.lat, probe.lon)
    /\ probe.pixel # NoPixel

\* The part of C22 that rests on the generator's rectangle alone.
C22_GeneratedTileContainsPoint ==
  GridDone =>
    /\ Contains(probe.tileInfo.bounds, probe.lat, probe.lon)
    /\ probe.pixel # NoPixel

(***************************************************************************)
(* Claims about the choice between the precomputed and the heuristic path. *)
(***************************************************************************)
\* The product of the factors other than the shadow factor.
CommonFactors ==
  facingScore(probe.sunAzimuth, probe.cafeOrientation)
    * elevScore(deg(probe.sunElevation)) * cloudPenalty(probe.cloudCover)
    * radiationBonus(probe.directRadiation)

ResolverPrecomputed == ProbeVoxResult # Rejected /\ ProbeVoxResult.precision = "voxcity"

\* C23: with the sun at or above 5 degrees computeHybridSunScore reports
\* method voxcity, with the confidence and the shadow factor of the
\* resolver's result, exactly when usePrecision is set and the resolver
\* returns precision voxcity; otherwise (usePrecision unset, sentinel,
\* resolver throws) it reports method heuristic, confidence 0.7 and a shadow
\* factor of 0.8 or 0.2; with usePrecision unset the resolver is not called.
C23_PrecomputedIffResolved ==
  (HybridDone /\ deg(probe.sunElevation) >= 5) =>
    /\ IF probe.usePrecision /\ ResolverPrecomputed
       THEN /\ probe.result.method = "voxcity"
            /\ probe.result.confidence = ProbeVoxResult.confidence
            /\ probe.result.score = clamp(ProbeVoxResult.shadowValue * CommonFactors, 0, ScoreDen)
       ELSE /\ probe.result.method = "heuristic"
            /\ probe.result.confidence = 70
            /\ \/ probe.result.score = clamp(204 * CommonFactors, 0, ScoreDen)
               \/ probe.result.score = clamp(51 * CommonFactors, 0, ScoreDen)
    /\ ~probe.usePrecision => probe.voxCalls = 0

\* The resolver returned the sentinel in precision mode, under a sun high
\* enough and a sky clear enough for a score above 0: the result is
\* heuristic with confidence 0.7 and the score of shadow factor 0.8.
C23_Witness ==
  /\ HybridDone
  /\ deg(probe.sunElevation) >= 5
  /\ probe.usePrecision
  /\ probe.voxCalls = 1
  /\ probe.voxResult = HeuristicSentinel
  /\ probe.result.method = "heuristic"
  /\ probe.result.confidence = 70
  /\ probe.result.score > 0
  /\ probe.result.score = clamp(204 * CommonFactors, 0, ScoreDen)

(***************************************************************************)
(* The metadata source, public/vox/metadata.json, and what a scoring       *)
(* request makes of it.                                                    *)
(***************************************************************************)
\* What the file system holds: no file, a file readFileSync throws on, a
\* file that is no JSON, or a file that parses to document.
MetadataSource(state, document) == [state |-> state, document |-> document]
CompleteMetadata ==
  [version |-> "1.0.0", tiles |-> {GeneratedTile(CentreTile)}, masks |-> ListedMasks]
MetadataSources ==
  { MetadataSource("missing", NoMetadata),
    MetadataSource("unreadable", NoMetadata),
    MetadataSource("garbage", NoMetadata),
    MetadataSource("parsed", [version |-> "1.0.0"]),
    MetadataSource("parsed", [version |-> "1.0.0", masks |-> ListedMasks]),
    MetadataSource("parsed", [version |-> "1.0.0", tiles |-> {GeneratedTile(CentreTile)}]),
    MetadataSource("parsed", CompleteMetadata) }

\* loadVoxMetadata() of a new server instance: existsSync, readFileSync and
\* JSON.parse, with null returned when the file is missing and from the
\* catch; the parsed document is returned as it is.
loadVoxMetadata(source) ==
  IF source.state = "parsed" THEN source.document ELSE NoMetadata

InitDegraded ==
  /\ InitState({})
  /\ \E source \in MetadataSources, lat \in ScorerCoords, lon \in ScorerCoords,
        sunElevation \in ProbeElevations, cloudCover \in {0, 50},
        usePrecision \in BOOLEAN :
       probe = [fn |-> "scoreWithSource", source |-> source, lat |-> lat, lon |-> lon,
                sunElevation |-> sunElevation, cloudCover |-> cloudCover,
                usePrecision |-> usePrecision, done |-> FALSE,
                voxResult |-> NoVoxCall, hybrid |-> TooLowResult,
                loop |-> [score |-> 0, counted |-> "heuristic"]]

\* The mask directory of the requests: every mask file is present.
StoredMasks == [n \in MaskNames |-> MaskOf(n, MaskSide * MaskSide)]

\* getVoxShadowValue(lat, lon, hourTime) over the metadata source.
SourceVoxResult(source, lat, lon) ==
  getVoxShadowValue(loadVoxMetadata(source), StoredMasks, lat, lon, ScorerMonth, ScorerHour)

\* A point and hour are resolved and scored over the metadata source: the
\* call of getVoxShadowValue, the call of computeHybridSunScore and the turn
\* of the scoring loop.  The sun is in the south over a south-facing point,
\* with direct radiation above 100.
ScoreWithSource ==
  /\ probe.fn = "scoreWithSource"
  /\ ~probe.done
  /\ LET vox == SourceVoxResult(probe.source, probe.lat, probe.lon)
     IN  probe' = [probe EXCEPT
                     !.done = TRUE,
                     !.voxResult = vox,
                     !.hybrid = computeHybridSunScore(0, probe.sunElevation, 180,
                                  probe.cloudCover, 101, FALSE, vox, probe.usePrecision),
                     !.loop = scorePointHour(0, probe.sunElevation, 180,
                                  probe.cloudCover, 101, FALSE, vox, probe.usePrecision)]
  /\ UNCHANGED << now, memoryCache, fileStore >>
  /\ UNCHANGED cacheVars
  /\ UNCHANGED routeVars

DegradedNext == ScoreWithSource

\* Scoring over every state of the metadata source.
SpecDegraded == InitDegraded /\ [][DegradedNext]_vars

(***************************************************************************)
(* Claims about a missing or malformed metadata source.                    *)
(***************************************************************************)
DegradedDone == probe.fn = "scoreWithSource" /\ probe.done
\* The source is missing, unreadable, no JSON, or lacks tiles or masks.
SourceDegraded ==
  \/ probe.source.state # "parsed"
  \/ ~Has(probe.source.document, "tiles")
  \/ ~Has(probe.source.document, "masks")

\* C24: with the metadata source missing, unreadable, not valid JSON, or
\* parsed without the tiles or masks list, getVoxShadowValue returns the
\* heuristic sentinel without throwing, the point and hour are scored by
\* the heuristic path and the request does not fail.
C24_DegradedSourceGivesSentinel ==
  (DegradedDone /\ SourceDegraded) =>
    /\ probe.voxResult = HeuristicSentinel
    /\ probe.hybrid.method = "heuristic"
    /\ probe.loop.counted = "heuristic"

\* The part of C24 that holds: the point and hour are scored by the
\* heuristic path and the turn of the loop yields a score, and the resolver
\* returns the sentinel when no document was parsed.
C24_DegradedSourceScoredHeuristically ==
  (DegradedDone /\ SourceDegraded) =>
    /\ probe.hybrid.method = "heuristic"
    /\ probe.loop.counted = "heuristic"
    /\ probe.loop.score \in 0 .. ScoreDen
    /\ probe.source.state # "parsed" => probe.voxResult = HeuristicSentinel

(***************************************************************************)
(* Progress of GET /api/sunscore.  The steps the server takes on its own   *)
(* are taken sooner or later.  The call to Overpass is made with an abort  *)
(* signal fired after 25 s, so it ends sooner or later, by an answer or by *)
(* the abort.  The call to the weather provider is a fetch without signal  *)
(* or timer: it ends only if the provider answers or the connection fails, *)
(* and nothing is assumed about that.                                      *)
(***************************************************************************)
AnswerGET == \E instant \in RequestInstants : SunscoreGET(instant)
AnswerBegin == \E task \in tasks : ComputeBegin(task)
AnswerWeather ==
  \E task \in tasks, outcome \in WeatherOutcomes, written \in BOOLEAN :
    WeatherFetched(task, outcome, written)
AnswerCafes ==
  \E task \in tasks, overpass \in OverpassOutcomes, seed \in SeedOutcomes,
     written \in BOOLEAN : CafesFetched(task, overpass, seed, written)
AnswerFinish == \E task \in tasks, written \in BOOLEAN : ComputeFinish(task, written)

AnswerNext ==
  \/ AnswerGET
  \/ AnswerBegin
  \/ AnswerWeather
  \/ AnswerCafes
  \/ AnswerFinish

\* The server's own steps and the bounded Overpass call are fair.
AnswerFairness ==
  /\ WF_vars(AnswerBegin)
  /\ WF_vars(AnswerCafes)
  /\ WF_vars(AnswerFinish)

\* Requests to /api/sunscore with providers that may never answer.
SpecAnswer == InitRoutes /\ [][AnswerNext]_vars /\ AnswerFairness

\* The same with a weather provider that answers or fails sooner or later.
SpecAnswerWeatherEnds == SpecAnswer /\ WF_vars(AnswerWeather)

(***************************************************************************)
(* Claims about provider timeouts.                                         *)
(***************************************************************************)
\* The request with this id has not been answered yet.
SunscorePending(id) == \E task \in tasks : task.kind = "sunscore" /\ task.id = id

\* C25: every provider call made while serving a request is bounded by a
\* timeout and a timed-out call counts as a failure, so every GET
\* /api/sunscore is answered sooner or later, with a result or a structured
\* failure, even when a provider never answers.
C25_EveryRequestAnswered ==
  \A id \in 1 .. MaxRequests : SunscorePending(id) ~> ~SunscorePending(id)


(***************************************************************************)
(* Background refreshes in flight (checked under SpecRoutes).              *)
(***************************************************************************)
\* The runs of refreshSunScoresInBackground in flight for an aggregate key.
RefreshesOf(key) ==
  { task \in tasks : task.kind = "scoreRefresh" /\ ScoreKeyOf(task.instant) = key }

\* A server instance starts over the cache directory an earlier instance
\* left: the aggregate of one request, computed and stored at time 0.
InitRefresh ==
  /\ now = 0
  /\ memoryCache = [k \in RouteKeys |-> NoEntry]
  /\ \E instant \in RequestInstants :
       fileStore =
         cacheSetFiles([p \in { FileOf[k] : k \in RouteKeys } |-> NoFile],
                       ScoreKeyOf(instant), ScoresResponse(0),
                       [ttl |-> AdaptiveTtl(instant), swr |-> WEATHER_SWR], 0, TRUE)
  /\ setCalls = {}
  /\ setCount = 0
  /\ latestSet = [k \in RouteKeys |-> NoEntry]
  /\ returned = NoCall
  /\ tasks = {}
  /\ requestCount = 0
  /\ event = NoEvent
  /\ probe = NoProbe

\* The request handlers over a cache directory that holds an aggregate.
SpecRefresh == InitRefresh /\ [][RoutesNext]_vars

\* C29: at most one background refresh per aggregate key is in flight at
\* any time: while the refresh started by one stale hit is running, further
\* stale hits on the key start no other recompute.
C29_OneRefreshPerKey == \A key \in ScoreKeys : Cardinality(RefreshesOf(key)) <= 1


(***************************************************************************)
(* The aggregate computation, computeFreshSunScores, turn by turn.         *)
(***************************************************************************)
\* const cafeLimit = limitParam ? Math.min(parseInt(limitParam), 1000) : 300
DefaultLimit == 300
LimitCap == 1000
NoParam == [given |-> FALSE]
Param(value) == [given |-> TRUE, value |-> value]
cafeLimitOf(limitParam) ==
  IF limitParam.given THEN Min2(limitParam.value, LimitCap) ELSE DefaultLimit

\* Math.ceil(a / b) for positive b
Ceil(a, b) == (a + b - 1) \div b

\* the limit is not applied
limitedCafesAll(cafes, cafeLimit) == cafes

\* cafes.length > cafeLimit
\*   ? cafes.filter((_, index) => index % Math.ceil(cafes.length / cafeLimit) === 0)
\*          .slice(0, cafeLimit)
\*   : cafes
limitedCafes(cafes, cafeLimit) ==
  IF Len(cafes) > cafeLimit
  THEN LET every == Ceil(Len(cafes), cafeLimit)
           kept == Ceil(Len(cafes), every)
           filtered == [k \in 1 .. kept |-> cafes[(k - 1) * every + 1]]
       IN  SubSeq(filtered, 1, Min2(kept, cafeLimit))
  ELSE cafes

\* The request of the aggregate specification, the limits and precisions
\* asked for, and a later instant at which its aggregate is stale and
\* inside the refresh window.
AggInstant == (12 * 60 + 20) * 60 * 1000
LimitParams == {NoParam, Param(1), Param(2000)}
PrecisionParams == {"voxcity", "heuristic"}
AggTimes == {0, AdaptiveTtl(AggInstant) - WEATHER_SWR + 1}

\* buildSunScoreKey(precisionParam, maxHours, hourBucket)
AggKeyOf(precisionParam, instant) ==
  IF precisionParam = "voxcity" THEN ScoreKeyOf(instant)
  ELSE <<"sunscore:heuristic", alignToHour(instant)>>

\* A cafe of the place directory: where it is, and what getVoxShadowValue
\* settles to for it (a precomputed value, the sentinel of a point no tile
\* covers, a rejection).
Cafe(id, pt, vox) == [id |-> id, lat |-> pt[1], lon |-> pt[2], vox |-> vox]
PrecomputedVox ==
  getVoxShadowValue(CompleteMetadata, StoredMasks, 0, 0, ScorerMonth, ScorerHour)
OverpassCafes ==
  << Cafe(1, <<4885661, 235220>>, PrecomputedVox),
     Cafe(2, <<4886000, 234000>>, Rejected) >>
SeedCafes == << Cafe(3, <<4885664, 235223>>, HeuristicSentinel) >>

\* The keys of the aggregate specification.
AggregateKeys ==
  { AggKeyOf(p, AggInstant) : p \in PrecisionParams }
    \cup { WeatherKeyOf(AggInstant), CafeKey }
    \cup { GeometryKeyOf(OverpassCafes[i].lat, OverpassCafes[i].lon, AggInstant) :
             i \in 1 .. Len(OverpassCafes) }
    \cup { GeometryKeyOf(SeedCafes[i].lat, SeedCafes[i].lon, AggInstant) :
             i \in 1 .. Len(SeedCafes) }

\* The hour of the day of an instant, and weatherData[k].time for a
\* computation started at instant.
HourOf(instant) == alignToHour(instant) \div (60 * 60 * 1000)
HourTime(instant, k) == alignToHour(instant) + (k - 1) * 60 * 60 * 1000

\* The length of the sequence fetchFreshWeatherData builds from a provider
\* answer that lists the 24 hours of the day: i < Math.max(hours, 12) &&
\* (startIndex + i) < hourlyTimes.length
AggFetchedHours(instant, hours) == Min2(FetchedHours(hours), 24 - HourOf(instant))

\* SunCalc's elevation, in degrees, for the geometry the loop holds: the
\* sun stands high before the hour of dusk and too low from it on.
DuskHours == {12, 24}
SunElevations == [high |-> 40, low |-> 4]
elevationOf(geometry, dusk) ==
  IF geometry.elevation.dt \div (60 * 60 * 1000) < dusk
  THEN SunElevations.high ELSE SunElevations.low

\* What the loop gives the scorer besides the geometry: the azimuth in
\* degrees, computeCafeOrientation(cafe), weather.cloudCover and
\* weather.directRadiation.
LoopInputs == [azimuth |-> 60, orientation |-> 180, cloudCover |-> 50, directRadiation |-> 101]
\* isDenseArea(lat, lon), the central arrondissements
isDenseArea(lat, lon) == lat > 4885000 /\ lat < 4887000 /\ lon > 232000 /\ lon < 237000

\* labelFromScore(score, afterSunset), held as the score it labels
labelFromScore(score) == [label |-> "of", score |-> score]


\* A run of computeFreshSunScores: in the foreground of a request (kind
\* "sunscore") or started by refreshSunScoresInBackground ("scoreRefresh").
\* limited: limitedCafes; turn: the cafe the outer loop is at; the lists and
\* counters are the loop's.
AggTask(kind, id, precisionParam, cafeLimit) ==
  [kind |-> kind, id |-> id, pc |-> "begin", instant |-> AggInstant,
   ttl |-> AdaptiveTtl(AggInstant), precisionParam |-> precisionParam,
   usePrecision |-> (precisionParam = "voxcity"), cafeLimit |-> cafeLimit,
   weather |-> [state |-> "none", hours |-> 0],
   cafes |-> [state |-> "none", list |-> << >>],
   limited |-> << >>, turn |-> 1, scoreByHour |-> << >>, labelByHour |-> << >>,
   cafesWithScores |-> << >>, voxCityUsageCount |-> 0, heuristicUsageCount |-> 0]

\* A fetch that goes on in the background: "weatherRefresh", "cafesRefresh",
\* or "cafesDetached" (the cafe fetch of a computation that has failed).
FetchTask(kind, id) == [kind |-> kind, id |-> id, instant |-> AggInstant, ttl |-> AdaptiveTtl(AggInstant)]

\* The payload of the cafe list, with the list.
CafeList(source, t, list) == [kind |-> "cafes", source |-> source, updatedAt |-> t, cafes |-> list]

InitAggregate ==
  /\ InitState(AggregateKeys)
  /\ \E dusk \in DuskHours : probe = [fn |-> "SunCalc.getPosition", dusk |-> dusk]

\* The clock advances to a later value.
AggTick ==
  /\ \E t \in AggTimes : t > now /\ now' = t
  /\ event' = NoEvent
  /\ UNCHANGED << memoryCache, fileStore, tasks, requestCount >>
  /\ UNCHANGED cacheVars
  /\ UNCHANGED probe

\* The runs of computeFreshSunScores in flight, and how many of them the
\* requests of this specification let run at once.
Computing == { task \in tasks : task.kind \in ComputeKinds }
MaxComputing == 1

\* GET /api/sunscore?precision=..&limit=..: a fresh hit is returned, a stale
\* hit is returned after refreshSunScoresInBackground was started (without
\* the request's limit: its cafeLimit parameter takes the default), a miss
\* starts computeFreshSunScores with the request's limit.
AggregateGET(precisionParam, limitParam) ==
  /\ requestCount < MaxRequests
  /\ Cardinality(Computing) < MaxComputing
  /\ requestCount' = requestCount + 1
  /\ LET scoreKey == AggKeyOf(precisionParam, AggInstant)
         r == getResult(memoryCache, fileStore, scoreKey, now)
         id == requestCount + 1
         cafeLimit == cafeLimitOf(limitParam)
     IN  /\ memoryCache' = getMemory(memoryCache, fileStore, scoreKey, now)
         /\ IF FreshHit(r)
            THEN /\ tasks' = tasks
                 /\ event' = [kind |-> "response", route |-> "sunscore", id |-> id,
                              status |-> 200, cacheStatus |-> "fresh",
                              cafeLimit |-> cafeLimit, precisionParam |-> precisionParam,
                              body |-> r.data]
            ELSE IF StaleHit(r)
            THEN /\ tasks' = tasks \cup {AggTask("scoreRefresh", id, precisionParam, DefaultLimit)}
                 /\ event' = [kind |-> "response", route |-> "sunscore", id |-> id,
                              status |-> 200, cacheStatus |-> "stale-while-revalidate",
                              cafeLimit |-> cafeLimit, precisionParam |-> precisionParam,
                              body |-> r.data]
            ELSE /\ tasks' = tasks \cup {AggTask("sunscore", id, precisionParam, cafeLimit)}
                 /\ event' = NoEvent
  /\ UNCHANGED << now, fileStore >>
  /\ UNCHANGED cacheVars
  /\ UNCHANGED probe

\* computeFreshSunScores starts: Promise.all calls fetchParisWeatherHourly
\* and fetchCafes; each makes its cache lookup, a hit settles its part (a
\* stale hit also starts a background refresh), a miss leaves the part
\* waiting for the provider.
AggBegin(task) ==
  /\ task \in tasks
  /\ task.kind \in ComputeKinds
  /\ task.pc = "begin"
  /\ LET wr == WeatherLookup(memoryCache, task.instant)
         mem1 == getMemory(memoryCache, fileStore, WeatherKeyOf(task.instant), now)
         cr == CafesLookup(mem1)
         mem2 == getMemory(mem1, fileStore, CafeKey, now)
         weather == IF wr.data # Null
                    THEN [state |-> "have", hours |-> SlicedHours(wr.data.hours, maxHours)]
                    ELSE [state |-> "fetching", hours |-> 0]
         cafes == IF cr.data # Null THEN [state |-> "have", list |-> cr.data.cafes]
                  ELSE [state |-> "fetching", list |-> << >>]
         spawned ==
           (IF StaleHit(wr) THEN {FetchTask("weatherRefresh", task.id)} ELSE {})
           \cup (IF StaleHit(cr) THEN {FetchTask("cafesRefresh", task.id)} ELSE {})
     IN  /\ memoryCache' = mem2
         /\ tasks' = (tasks \ {task})
                       \cup {[task EXCEPT !.pc = "wait", !.weather = weather, !.cafes = cafes]}
                       \cup spawned
  /\ event' = NoEvent
  /\ UNCHANGED << now, fileStore, requestCount >>
  /\ UNCHANGED cacheVars
  /\ UNCHANGED probe

\* fetchFreshWeatherData after its provider call: it throws, or finds no
\* hour from the starting hour on (an empty sequence, nothing cached), or
\* builds and caches the sequence.  The durable writes of this
\* specification succeed.
AggWeatherFetched(task, outcome) ==
  /\ task \in tasks
  /\ \/ task.kind \in ComputeKinds /\ task.pc = "wait" /\ task.weather.state = "fetching"
     \/ task.kind = "weatherRefresh"
  /\ LET key == WeatherKeyOf(task.instant)
         data == WeatherData(AggFetchedHours(task.instant, maxHours))
         options == [ttl |-> task.ttl, swr |-> WEATHER_SWR]
         weather == CASE outcome = "throws" -> [state |-> "threw", hours |-> 0]
                      [] outcome = "empty"  -> [state |-> "have", hours |-> 0]
                      [] OTHER              -> [state |-> "have", hours |-> data.hours]
     IN  /\ IF outcome = "data"
            THEN /\ memoryCache' = cacheSetMemory(memoryCache, key, data, options, now)
                 /\ fileStore' = cacheSetFiles(fileStore, key, data, options, now, TRUE)
            ELSE UNCHANGED << memoryCache, fileStore >>
         /\ IF task.kind = "weatherRefresh"
            THEN /\ tasks' = tasks \ {task}
                 /\ event' = [kind |-> "log", task |-> task.kind, id |-> task.id]
            ELSE /\ tasks' = (tasks \ {task}) \cup {[task EXCEPT !.weather = weather]}
                 /\ event' = NoEvent
  /\ UNCHANGED << now, requestCount >>
  /\ UNCHANGED cacheVars
  /\ UNCHANGED probe

\* fetchFreshCafes after its provider call, and fetchCafes around it:
\* Overpass returns cafes, or it throws or returns none and the seed file
\* is loaded, or cannot be loaded: the 503 body has no cafes and fetchCafes
\* returns data.cafes ?? [].
AggCafesFetched(task, overpass, seed) ==
  /\ task \in tasks
  /\ \/ task.kind \in ComputeKinds /\ task.pc = "wait" /\ task.cafes.state = "fetching"
     \/ task.kind \in {"cafesRefresh", "cafesDetached"}
  /\ overpass = "cafes" => seed = "ok"
  /\ LET stored == overpass = "cafes" \/ seed = "ok"
         payload == IF overpass = "cafes" THEN CafeList("overpass", now, OverpassCafes)
                    ELSE CafeList("seed", 0, SeedCafes)
         options == IF overpass = "cafes" THEN [ttl |-> CAFES, swr |-> CAFES_SWR]
                    ELSE [ttl |-> SEED_TTL, swr |-> SEED_SWR]
         list == IF stored THEN payload.cafes ELSE << >>
     IN  /\ IF stored
            THEN /\ memoryCache' = cacheSetMemory(memoryCache, CafeKey, payload, options, now)
                 /\ fileStore' = cacheSetFiles(fileStore, CafeKey, payload, options, now, TRUE)
            ELSE UNCHANGED << memoryCache, fileStore >>
         /\ IF task.kind \in ComputeKinds
            THEN /\ tasks' = (tasks \ {task})
                       \cup {[task EXCEPT !.cafes = [state |-> "have", list |-> list]]}
                 /\ event' = [kind |-> "cafes", id |-> task.id, stored |-> stored]
            ELSE /\ tasks' = tasks \ {task}
                 /\ event' = [kind |-> "log", task |-> task.kind, id |-> task.id]
  /\ UNCHANGED << now, requestCount >>
  /\ UNCHANGED cacheVars
  /\ UNCHANGED probe

\* the cafes are not waited for
PromiseAllWeatherOnly(task) == task.weather.state = "have"

\* const [weatherData, cafes] = await Promise.all([...]) has resolved
PromiseAllResolved(task) == task.weather.state = "have" /\ task.cafes.state = "have"

\* computeFreshSunScores after Promise.all.  Promise.all rejects as soon as
\* the weather fetch throws (the cafe fetch then goes on alone), and an
\* empty weather sequence throws 'No weather data available': the catch
\* returns the 500 response in the foreground and nothing in a background
\* refresh.  Otherwise limitedCafes is taken and the loop begins.
AggGather(task) ==
  /\ task \in tasks
  /\ task.kind \in ComputeKinds
  /\ task.pc = "wait"
  /\ task.weather.state = "threw" \/ PromiseAllResolved(task)
  /\ IF ComputeFails(task)
     THEN /\ tasks' = (tasks \ {task})
                \cup (IF task.cafes.state = "fetching"
                      THEN {FetchTask("cafesDetached", task.id)} ELSE {})
          /\ event' =
               IF task.kind = "sunscore"
               THEN [kind |-> "response", route |-> "sunscore", id |-> task.id,
                     status |-> 500, cacheStatus |-> "none",
                     cafeLimit |-> task.cafeLimit, precisionParam |-> task.precisionParam,
                     body |-> [kind |-> "error", error |-> "sunscore_failed",
                               message |-> ErrorMessage(task)]]
               ELSE [kind |-> "log", task |-> task.kind, id |-> task.id]
     ELSE /\ tasks' = (tasks \ {task})
                \cup {[task EXCEPT !.pc = "scoring",
                                   !.limited = limitedCafes(task.cafes.list, task.cafeLimit)]}
          /\ event' = [kind |-> "gathered", id |-> task.id]
  /\ UNCHANGED << now, memoryCache, fileStore, requestCount >>
  /\ UNCHANGED cacheVars
  /\ UNCHANGED probe

\* One turn of the inner loop, for the cafe the outer loop is at and the
\* next hour: getCachedSunGeometry, then the low-sun exit or
\* computeHybridSunScore, the usage counter, the two pushes; after the last
\* hour the cafe is pushed with its lists and the outer loop moves on.
AggTurn(task) ==
  /\ task \in tasks
  /\ task.kind \in ComputeKinds
  /\ task.pc = "scoring"
  /\ task.turn <= Len(task.limited)
  /\ LET cafe == task.limited[task.turn]
         hour == Len(task.scoreByHour) + 1
         hourTime == HourTime(task.instant, hour)
     IN  /\ GetCachedSunGeometry(hourTime, cafe.lat, cafe.lon, TRUE)
         /\ LET elevation == elevationOf(returned'.geometry, probe.dusk)
                r == scorePointHour(LoopInputs.azimuth, elevation, LoopInputs.orientation,
                                    LoopInputs.cloudCover, LoopInputs.directRadiation,
                                    isDenseArea(cafe.lat, cafe.lon), cafe.vox,
                                    task.usePrecision)
                scores == Append(task.scoreByHour, r.score)
                labels == Append(task.labelByHour, labelFromScore(r.score))
                counted == [task EXCEPT
                              !.voxCityUsageCount = @ + (IF r.counted = "voxcity" THEN 1 ELSE 0),
                              !.heuristicUsageCount = @ + (IF r.counted = "voxcity" THEN 0 ELSE 1)]
                after ==
                  IF hour < task.weather.hours
                  THEN [counted EXCEPT !.scoreByHour = scores, !.labelByHour = labels]
                  ELSE [counted EXCEPT
                          !.scoreByHour = << >>, !.labelByHour = << >>,
                          !.turn = @ + 1,
                          !.cafesWithScores =
                             Append(@, [id |-> cafe.id, lat |-> cafe.lat, lon |-> cafe.lon,
                                        labelByHour |-> labels, scoreByHour |-> scores])]
            IN  /\ tasks' = (tasks \ {task}) \cup {after}
                /\ event' = [kind |-> "turn", id |-> task.id, cafe |-> cafe.id,
                             hour |-> hour, usePrecision |-> task.usePrecision,
                             resolverCalls |-> ResolverCalls(elevation, task.usePrecision),
                             counted |-> r.counted]
  /\ UNCHANGED << now, requestCount, setCalls, setCount, latestSet >>
  /\ UNCHANGED probe

\* The response of computeFreshSunScores.
AggResponse(task, t) ==
  [kind |-> "scores", updatedAt |-> t,
   hours |-> [k \in 1 .. task.weather.hours |-> HourTime(task.instant, k)],
   cafes |-> task.cafesWithScores,
   meta |-> [totalCafes |-> Len(task.cafesWithScores),
             totalAvailable |-> Len(task.cafes.list),
             cafeLimit |-> task.cafeLimit,
             hoursComputed |-> maxHours,
             shadowMethod |-> IF task.usePrecision THEN "voxcity+heuristic"
                              ELSE "heuristic-only",
             voxCityUsage |-> [voxCityCalculations |-> task.voxCityUsageCount,
                               heuristicFallbacks |-> task.heuristicUsageCount]]]

\* computeFreshSunScores after the loops: the response is built, stored
\* under scoreKey and, in the foreground, returned.
AggFinish(task) ==
  /\ task \in tasks
  /\ task.kind \in ComputeKinds
  /\ task.pc = "scoring"
  /\ task.turn > Len(task.limited)
  /\ LET scoreKey == AggKeyOf(task.precisionParam, task.instant)
         response == AggResponse(task, now)
         options == [ttl |-> task.ttl, swr |-> WEATHER_SWR]
     IN  /\ tasks' = tasks \ {task}
         /\ memoryCache' = cacheSetMemory(memoryCache, scoreKey, response, options, now)
         /\ fileStore' = cacheSetFiles(fileStore, scoreKey, response, options, now, TRUE)
         /\ event' =
              IF task.kind = "sunscore"
              THEN [kind |-> "response", route |-> "sunscore", id |-> task.id,
                    status |-> 200, cacheStatus |-> "fresh-computation",
                    cafeLimit |-> task.cafeLimit, precisionParam |-> task.precisionParam,
                    body |-> response]
              ELSE [kind |-> "stored", task |-> task.kind, id |-> task.id,
                    cafeLimit |-> task.cafeLimit, precisionParam |-> task.precisionParam,
                    body |-> response]
  /\ UNCHANGED << now, requestCount >>
  /\ UNCHANGED cacheVars
  /\ UNCHANGED probe

AggregateNext ==
  \/ AggTick
  \/ \E precisionParam \in PrecisionParams, limitParam \in LimitParams :
       AggregateGET(precisionParam, limitParam)
  \/ \E task \in tasks : AggBegin(task)
  \/ \E task \in tasks, outcome \in WeatherOutcomes : AggWeatherFetched(task, outcome)
  \/ \E task \in tasks, overpass \in OverpassOutcomes, seed \in SeedOutcomes :
       AggCafesFetched(task, overpass, seed)
  \/ \E task \in tasks : AggGather(task)
  \/ \E task \in tasks : AggTurn(task)
  \/ \E task \in tasks : AggFinish(task)

\* Requests for the aggregate, computed turn by turn over the cache.
SpecAggregate == InitAggregate /\ [][AggregateNext]_vars


(***************************************************************************)
(* Claims about the aggregate computation (checked under SpecAggregate).   *)
(***************************************************************************)
\* The run of computeFreshSunScores the step just taken belongs to, before
\* the step.
RunOf(id) == CHOOSE task \in tasks : task.id = id /\ task.kind \in ComputeKinds
HasRun(id) == \E task \in tasks : task.id = id /\ task.kind \in ComputeKinds
\* Both fetches of the run have completed, with weather to score.
BothFetched(task) ==
  /\ task.weather.state = "have" /\ task.weather.hours > 0
  /\ task.cafes.state = "have"
\* The step just taken stored or returned a computed aggregate.
Aggregated(e) ==
  \/ e.kind = "stored"
  \/ e.kind = "response" /\ e.cacheStatus = "fresh-computation"

\* C26: within one aggregate computation no geometry lookup and no scorer
\* call happens before both the weather fetch and the point-list fetch have
\* completed; when the weather fetch rejects or is empty the computation
\* ends without scoring; a point-list failure gives an empty point set and
\* a successful, empty aggregate.
C26_Step ==
  /\ event'.kind = "turn" =>
       /\ HasRun(event'.id)
       /\ BothFetched(RunOf(event'.id))
       /\ returned'.op = "getCachedSunGeometry"
  /\ Aggregated(event') =>
       /\ HasRun(event'.id)
       /\ BothFetched(RunOf(event'.id))
       /\ RunOf(event'.id).cafes.list = << >> => event'.body.cafes = << >>
  /\ \A task \in tasks :
       /\ task.kind \in ComputeKinds
       /\ task.pc = "wait"
       /\ task.weather.state = "threw" \/ (task.weather.state = "have" /\ task.weather.hours = 0)
       => \A after \in tasks' : after.id = task.id /\ after.kind \in ComputeKinds =>
            after.pc = "wait" /\ after.cafesWithScores = << >> /\ after.limited = << >>
  /\ event'.kind = "cafes" /\ ~event'.stored =>
       \E after \in tasks' :
         /\ after.id = event'.id
         /\ after.kind \in ComputeKinds
         /\ after.cafes = [state |-> "have", list |-> << >>]
C26_ScoringAfterBothFetches == [][C26_Step]_vars

\* A request is answered with a successful, empty aggregate: its point list
\* failed and its weather did not.
C26_Witness ==
  /\ event.kind = "response"
  /\ event.cacheStatus = "fresh-computation"
  /\ event.status = 200
  /\ event.body.cafes = << >>
  /\ Len(event.body.hours) > 0


\* A request for the aggregate has just been answered with an aggregate.
AggregateReturned ==
  event.kind = "response" /\ event.route = "sunscore" /\ event.status = 200

\* C27: the aggregate returned to a request never has more points than the
\* request's limit (300 by default, at most 1000), whether it was computed
\* for the request, served from the cache or left by a background refresh.
C27_PointsWithinLimit ==
  AggregateReturned => Len(event.body.cafes) <= event.cafeLimit

\* What does hold: an aggregate computed for the request has no more
\* points than the request's limit.
C27_ComputedWithinLimit ==
  AggregateReturned /\ event.cacheStatus = "fresh-computation" =>
    Len(event.body.cafes) <= event.cafeLimit

\* In every aggregate returned the hours list and each point's scoreByHour
\* and labelByHour have the same length.
SameLengths(body) ==
  \A i \in 1 .. Len(body.cafes) :
    /\ Len(body.cafes[i].scoreByHour) = Len(body.hours)
    /\ Len(body.cafes[i].labelByHour) = Len(body.hours)

\* C28: in every aggregate result the hours list and each point's
\* scoreByHour and labelByHour have the same length, and that length never
\* exceeds the requested hour count capped at 12 (meta.hoursComputed),
\* whether the weather was fetched or came from the weather cache.
C28_HoursWithinRequested ==
  AggregateReturned =>
    /\ SameLengths(event.body)
    /\ Len(event.body.hours) <= event.body.meta.hoursComputed

\* What does hold: the three lengths are the same.
C28_SameLengths == AggregateReturned => SameLengths(event.body)


\* The usage counters of an aggregate.
Usage(body) == body.meta.voxCityUsage

\* C30: in every aggregate result voxCityCalculations + heuristicFallbacks
\* is the number of points times the number of hours scored; when the
\* precision mode of the request is not 'voxcity', voxCityCalculations is 0
\* and no turn of the loop calls the shadow resolver.
C30_UsageCountsAddUp ==
  /\ AggregateReturned \/ event.kind = "stored" =>
       /\ Usage(event.body).voxCityCalculations + Usage(event.body).heuristicFallbacks
            = Len(event.body.cafes) * Len(event.body.hours)
       /\ event.precisionParam # "voxcity" => Usage(event.body).voxCityCalculations = 0
  /\ event.kind = "turn" /\ ~event.usePrecision =>
       event.resolverCalls = 0 /\ event.counted = "heuristic"

\* A heuristic-only request is answered with an aggregate of two points
\* scored under a high sun.
C30_Witness ==
  /\ AggregateReturned
  /\ event.precisionParam = "heuristic"
  /\ Len(event.body.cafes) = 2
  /\ event.body.cafes[1].scoreByHour[1] > 0
  /\ Usage(event.body).heuristicFallbacks = 2 * Len(event.body.hours)

============================================================================
